---------------------------- MODULE Spec2Model ----------------------------
(***************************************************************************)
(* tpmiddle-rs: the smooth-scroll engine of core/src/control.rs and the    *)
(* Windows plumbing around it.                                             *)
(*                                                                         *)
(*   - the scroll state machine (State::feed, State::tick, FeedRate),      *)
(*     driven directly by feed and tick calls: SpecSM;                     *)
(*   - the SmoothController: caller, worker thread and Ticker (clock)      *)
(*     thread, connected by three crossbeam bounded(1) channels: Spec;     *)
(*   - the feed-rate estimate over longer feed sequences: SpecRate;        *)
(*   - feeds of extreme i8 magnitudes: SpecI8;                             *)
(*   - the ClassicController: SpecClassic;                                 *)
(*   - two state machines fed at different intervals: SpecPair;            *)
(*   - the FeedRate with its `prev` instant: SpecMeter;                    *)
(*   - the middle-button state machine of TPMiddle: SpecButton;            *)
(*   - the connection over USB or Bluetooth: SpecConn;                     *)
(*   - the Bluetooth wheel blocker and its hook procedure: SpecBlock;      *)
(*   - the registry of the low-level hooks: SpecHook.                      *)
(*                                                                         *)
(* f32 quantities are fixed-point integers in units of 1/One: seconds are  *)
(* microseconds, a buffer of 1.0 is One.  Products and quotients are       *)
(* rounded to the nearest unit; f32's own rounding is not modelled.        *)
(***************************************************************************)
EXTENDS Integers, Sequences, FiniteSets, TLC

VARIABLES
    state,       \* worker-owned `state: State` (control.rs:117)
    \* SpecSM: the calls made on the state machine
    feeds,       \* number of State::feed calls made so far
    sinceFeed,   \* State::tick calls since the last State::feed
    emitted,     \* what the last State::tick call returned, with the session that produced it
    drift,       \* One * (sum of deltas emitted) - exact sum of direction*spend*WHEEL_DELTA, this session
    fed,         \* the last State::feed call, if no State::tick followed it: its arguments, the state before, its result
    session,     \* the tick whose feed started the latest session
    account,     \* this session: pressure fed, amount spent, whether the reservoir cap has cut
    quad,        \* since the tick that switched the decay to Quadratic, no feed since: ticks, reservoir at the switch, spent
    \* Spec: the SmoothController
    callerPc,    \* the thread owning the controller: "ready", "send", "join", "done"
    callerEv,    \* the Event that thread is sending
    calls,       \* tick() and stop() calls made so far: [tick |-> n, stop |-> m]
    events,      \* the bounded(1) Event channel (control.rs:116)
    workerPc,    \* worker thread: "select", "send", "ticker_drop", "done"
    workerCmd,   \* the TickerCommand the worker is sending
    cmds,        \* the bounded(1) TickerCommand channel (control.rs:199)
    signals,     \* the bounded(1) tick-signal channel (control.rs:198): number of () in it
    clockPc,     \* Ticker thread: "wait", "sleep", "send", "done"
    last,        \* what the worker's latest loop iteration handled and sent to the HAL
    stopped,     \* a Stop event was processed and no Tick event was fed since
    sentLog,     \* the ticks of the tick() calls that returned, in order
    fedLog,      \* the ticks passed to State::feed, in order
    seenTick,    \* a Tick event was in the event channel when the signal now pending was sent, and is still there
    issued,      \* the last TickerCommand the worker put into the command channel
    consumed,    \* the last TickerCommand the Ticker thread took from the command channel
    \* SpecClassic: the ClassicController
    classic,     \* its calls and what it sent to the HAL: [ticks |-> <<..>>, stops |-> n, sink |-> <<..>>]
    \* SpecPair: two state machines fed the same ticks at two paces
    pair,        \* [fast |-> run, slow |-> run]
    \* SpecMeter: a FeedRate with its `prev` instant
    meter,       \* the FeedRate, the time now, and the last call made on it
    \* SpecButton: TPMiddle::proc and the MiddleButtonState
    button,      \* the two TPMiddle state machines, the time now, and the last event handled
    \* SpecConn: TransportAgnosticTPMiddle
    conn,        \* the ConnectionState, the device table, and the last message handled
    \* SpecBlock: WheelBlocker and its hook procedure
    blocker,     \* the tick count, the BlockMessage channel, and the last hook call
    \* SpecHook: LowLevelMouseHook and the HOOKS registry
    hooks        \* the registry, the hooks alive, and the last operation

smVars == <<feeds, sinceFeed, emitted, drift, fed, session, account, quad>>

ctlVars == <<callerPc, callerEv, calls, events, workerPc, workerCmd, cmds, signals,
             clockPc, last, stopped, sentLog, fedLog, seenTick, issued, consumed>>

auxVars == <<classic, pair, meter, button, conn, blocker, hooks>>

vars == <<state, smVars, ctlVars, auxVars>>

-----------------------------------------------------------------------------
(* Bounds of the model *)

\* largest |magnitude| of a tick fed to the state machine
MaxMag == 2

\* number of State::feed calls in one behaviour of SpecSM
MaxFeeds == 2

\* number of State::feed calls in one behaviour of SpecRate
MaxRateFeeds == 4

\* number of State::feed calls in one behaviour of SpecI8
MaxI8Feeds == 3

\* number of ClassicController::tick calls in one behaviour of SpecClassic
MaxClassicTicks == 2

\* number of ClassicController::stop calls in one behaviour of SpecClassic
MaxClassicStops == 2

\* number of feeds in each of the two sequences of SpecPair
MaxPairFeeds == 3

\* number of FeedRate::feed calls in one behaviour of SpecMeter
MaxMeterFeeds == 3

\* number of input events handled in one behaviour of SpecButton
MaxButtonEvents == 4

\* number of WM_INPUT_DEVICE_CHANGE messages in one behaviour of SpecConn
MaxDeviceChanges == 4

\* number of steps (time passing, messages, hook calls) in one behaviour of
\* SpecBlock
MaxBlockerSteps == 5

\* number of LowLevelMouseHook::new and drop in one behaviour of SpecHook
MaxHookCalls == 8

\* number of SmoothController::tick calls made on one controller
MaxTickCalls == 2

\* number of SmoothController::stop calls made on one controller
MaxStopCalls == 3

-----------------------------------------------------------------------------
(* Fixed-point arithmetic standing for f32 *)

\* operands are split in two limbs of three decimal digits so that no
\* intermediate product leaves TLC's 32-bit integers
Limb == 10 * 10 * 10

\* 1.0
One == Limb * Limb

\* << (a*b) \div One, (a*b) % One >> for a, b >= 0
MulParts(a, b) ==
    LET ah  == a \div Limb
        al  == a % Limb
        bh  == b \div Limb
        bl  == b % Limb
        x   == ah * bl + al * bh
        low == (x % Limb) * Limb + al * bl
    IN  << ah * bh + (x \div Limb) + (low \div One), low % One >>

\* f32 `a * b`, rounded to the nearest unit
FMul(a, b) ==
    LET qr == MulParts(a, b)
    IN  qr[1] + (IF 2 * qr[2] >= One THEN 1 ELSE 0)

RECURSIVE LongDiv(_, _, _, _)
\* n more decimal digits of r/b appended to q, for 0 <= r < b < 2^31 / 10
LongDiv(q, r, b, n) ==
    IF n = 0 THEN << q, r >>
    ELSE LongDiv(10 * q + ((10 * r) \div b), (10 * r) % b, b, n - 1)

\* f32 `a / b`, rounded to the nearest unit (One has 6 decimal digits)
FDiv(a, b) ==
    LET qr == LongDiv(a \div b, a % b, b, 6)
    IN  qr[1] + (IF 2 * qr[2] >= b THEN 1 ELSE 0)

RECURSIVE SqrtSearch(_, _, _)
\* the largest r in lo..hi-1 with r*r <= x*One, given lo*lo <= x*One < hi*hi
SqrtSearch(x, lo, hi) ==
    IF hi - lo <= 1 THEN lo
    ELSE LET mid == (lo + hi) \div 2
             sq  == MulParts(mid, mid)
         IN  IF sq[1] < x \/ (sq[1] = x /\ sq[2] = 0)
             THEN SqrtSearch(x, mid, hi)
             ELSE SqrtSearch(x, lo, mid)

\* f32 `x.sqrt()` for 0 <= x <= 1.0
FSqrt(x) == SqrtSearch(x, 0, One + 1)

Min(a, b) == IF a <= b THEN a ELSE b

Max(a, b) == IF a >= b THEN a ELSE b

Abs(n) == IF n < 0 THEN -n ELSE n

\* i8::MIN
I8_MIN == -128

\* i8::abs overflows on i8::MIN: with overflow checks (debug builds) it
\* panics, without them (release builds) it wraps and returns i8::MIN
AbsOverflows(raw) == raw = I8_MIN

\* i8::abs where it does not panic
I8Abs(raw) == IF AbsOverflows(raw) THEN I8_MIN ELSE Abs(raw)

Signum(n) == IF n > 0 THEN 1 ELSE IF n < 0 THEN -1 ELSE 0

\* Option<T>
None == << >>

Some(x) == << x >>

-----------------------------------------------------------------------------
(* units.rs *)

WHEEL_DELTA == 120

Axes == {"Vertical", "Horizontal"}

\* Wheel<T>: Wheel::Vertical(v) | Wheel::Horizontal(v)
Wheel(a, v) == [axis |-> a, value |-> v]

\* Wheel::with_value: both arms build Wheel::Vertical
with_value(w, v) ==
    IF w.axis = "Vertical" THEN Wheel("Vertical", v) ELSE Wheel("Vertical", v)

\* Wheel<Tick<i8>>::into_direction, through From<Tick<i8>> for Direction
into_direction(tick) == Wheel(tick.axis, Signum(tick.value))

\* TickIntoDelta with the direction left out of the product
TickIntoDeltaUnsigned(dir, amount) ==
    LET low == (amount % One) * WHEEL_DELTA
    IN  [delta |-> (amount \div One) * WHEEL_DELTA + (low \div One), error |-> low % One]

\* From<Tick<f32>> for (Delta, f32), applied to direction * amount:
\* delta_f32 = raw * 120, delta = delta_f32 as i32 (towards zero), error = the rest
TickIntoDelta(dir, amount) ==
    LET raw == dir * amount
        low == (Abs(raw) % One) * WHEEL_DELTA
        q   == (Abs(raw) \div One) * WHEEL_DELTA + (low \div One)
        r   == low % One
    IN  [delta |-> Signum(raw) * q, error |-> Signum(raw) * r]

\* a conversion that leaves out the factor WHEEL_DELTA
TickI8IntoDeltaUnscaled(raw) == raw

\* From<Tick<i8>> for Delta
TickI8IntoDelta(raw) == raw * WHEEL_DELTA

\* Wheel<Tick<i8>>::into_delta, through Wheel::into
into_delta(tick) == Wheel(tick.axis, TickI8IntoDelta(tick.value))

-----------------------------------------------------------------------------
(* control.rs, mod smooth: constants *)

MIN_FEED_INTERVAL_SECS == 15000

MAX_FEED_INTERVAL_SECS == 300000

WHEEL_TICK_FREQ == 120

WHEEL_TICK_INTERVAL_SECS == FDiv(One, WHEEL_TICK_FREQ * One)

BUFFER_MAX_DRAIN_DURATION_SECS == 50000

BUFFER_MIN_DRAIN_PER_TICK ==
    FDiv(FDiv(One, BUFFER_MAX_DRAIN_DURATION_SECS), WHEEL_TICK_FREQ * One)

MOVING_AVG_COEFF == 500000

-----------------------------------------------------------------------------
(* FeedRate.  `prev` is only read to form `now - prev`; the model passes    *)
(* that difference (diff, in microseconds) in place of `now`.              *)

\* FeedRate::new
FeedRateNew == [interval |-> None, value |-> None]

\* FeedRate::feed
FeedRateFeed(fr, diff, raw) ==
    LET tick == I8Abs(raw) * One
    IN  [interval |->
            IF fr.interval # None
            THEN Some(FMul(fr.interval[1], One - MOVING_AVG_COEFF) + FMul(diff, MOVING_AVG_COEFF))
            ELSE Some(diff),
         value |->
            IF fr.value # None
            THEN Some(FMul(fr.value[1], One - MOVING_AVG_COEFF) + FMul(tick, MOVING_AVG_COEFF))
            ELSE Some(tick)]

\* FeedRate::interval without `.min(MAX_FEED_INTERVAL_SECS)`
FeedRateIntervalNoCeiling(fr) ==
    LET stored == IF fr.interval # None THEN fr.interval[1] ELSE MAX_FEED_INTERVAL_SECS
    IN  Max(stored, MIN_FEED_INTERVAL_SECS)

\* FeedRate::interval
FeedRateInterval(fr) ==
    LET stored == IF fr.interval # None THEN fr.interval[1] ELSE MAX_FEED_INTERVAL_SECS
    IN  Max(Min(stored, MAX_FEED_INTERVAL_SECS), MIN_FEED_INTERVAL_SECS)

\* FeedRate::moving_avg
FeedRateMovingAvg(fr) ==
    FDiv(IF fr.value # None THEN fr.value[1] ELSE One, FeedRateInterval(fr))

-----------------------------------------------------------------------------
(* State *)

Nop == [kind |-> "Nop"]

\* the thread running State::feed has panicked
Panicked == [kind |-> "Panicked"]

AutomaticExponential == [kind |-> "AutomaticExponential"]

Quadratic(a, d) == [kind |-> "Quadratic", amount |-> a, decreasing_rate |-> d]

Scrolling(dir, buf, dec, res, err, fr) ==
    [kind |-> "Scrolling", direction |-> dir, buffer |-> buf, decay |-> dec,
     reservoir |-> res, error |-> err, feed_rate |-> fr]

\* FeedSame that leaves the decay mode as it was
FeedSameKeepsDecay(st, diff, tick) ==
    LET fr    == FeedRateFeed(st.feed_rate, diff, tick.value)
        nudge == FSqrt(FDiv(MIN_FEED_INTERVAL_SECS, FeedRateInterval(fr)))
        value == FMul(I8Abs(tick.value) * One, nudge)
    IN  [state |-> Scrolling(st.direction, st.buffer + value, st.decay,
                             st.reservoir, st.error, fr),
         started |-> FALSE]

\* State::feed, same-direction arm
FeedSame(st, diff, tick) ==
    LET fr    == FeedRateFeed(st.feed_rate, diff, tick.value)
        nudge == FSqrt(FDiv(MIN_FEED_INTERVAL_SECS, FeedRateInterval(fr)))
        value == FMul(I8Abs(tick.value) * One, nudge)
    IN  [state |-> Scrolling(st.direction, st.buffer + value, AutomaticExponential,
                             st.reservoir, st.error, fr),
         started |-> FALSE]

\* FeedNew without the initial nudge: the buffer starts at |magnitude|
FeedNewNoNudge(tick) ==
    [state |-> Scrolling(into_direction(tick), I8Abs(tick.value) * One,
                         AutomaticExponential, 0, 0, FeedRateNew),
     started |-> TRUE]

\* FeedNew returning false: the caller does not resume the clock
FeedNewNotStarted(tick) ==
    LET initial_nudge == FSqrt(FDiv(MIN_FEED_INTERVAL_SECS, MAX_FEED_INTERVAL_SECS))
    IN  [state |-> Scrolling(into_direction(tick),
                             FMul(I8Abs(tick.value) * One, initial_nudge),
                             AutomaticExponential, 0, 0, FeedRateNew),
         started |-> FALSE]

\* State::feed, new-session arm
FeedNew(tick) ==
    LET initial_nudge == FSqrt(FDiv(MIN_FEED_INTERVAL_SECS, MAX_FEED_INTERVAL_SECS))
    IN  [state |-> Scrolling(into_direction(tick),
                             FMul(I8Abs(tick.value) * One, initial_nudge),
                             AutomaticExponential, 0, 0, FeedRateNew),
         started |-> TRUE]

\* State::feed(now, tick): the new state and the bool it returns.  Both arms
\* call tick.value().raw().abs(), which panics on i8::MIN when the build has
\* overflow checks.
StateFeed(st, diff, tick, overflow_checks) ==
    IF overflow_checks /\ AbsOverflows(tick.value)
    THEN [state |-> Panicked, started |-> FALSE]
    ELSE IF st.kind = "Scrolling" /\ into_direction(tick) = st.direction
         THEN FeedSame(st, diff, tick)
         ELSE FeedNew(tick)

\* Drain without `.min(*buffer)` on the linear rate
DrainNoMin(buffer) ==
    IF buffer > One
    THEN FMul(buffer, BUFFER_MIN_DRAIN_PER_TICK)
    ELSE BUFFER_MIN_DRAIN_PER_TICK

\* buffer drained into the reservoir by one tick
Drain(buffer) ==
    IF buffer > One
    THEN FMul(buffer, BUFFER_MIN_DRAIN_PER_TICK)
    ELSE Min(BUFFER_MIN_DRAIN_PER_TICK, buffer)

\* the reservoir cap, applied when something was drained
CapReservoir(reservoir, drain, fr) ==
    IF drain > 0 THEN Min(reservoir, FeedRateMovingAvg(fr)) ELSE reservoir

\* SelectDecay that never leaves the decay mode it finds
SelectDecayNever(decay, buffer, reservoir, decay_rate, feed_interval) == decay

\* SelectDecay starting the quadratic decay at half the amount
SelectDecayHalfAmount(decay, buffer, reservoir, decay_rate, feed_interval) ==
    IF buffer = 0 /\ decay = AutomaticExponential
    THEN Quadratic(FMul(reservoir, decay_rate) \div 2,
                   FDiv(FMul(reservoir, decay_rate),
                        FMul(FMul(feed_interval, 2 * One), WHEEL_TICK_FREQ * One)))
    ELSE decay

\* the switch to Decay::Quadratic once the buffer is depleted
SelectDecay(decay, buffer, reservoir, decay_rate, feed_interval) ==
    IF buffer = 0 /\ decay = AutomaticExponential
    THEN Quadratic(FMul(reservoir, decay_rate),
                   FDiv(FMul(reservoir, decay_rate),
                        FMul(FMul(feed_interval, 2 * One), WHEEL_TICK_FREQ * One)))
    ELSE decay

\* SpendAmount without the Decay::Quadratic arm: exponential decay throughout
SpendAmountExponential(decay, reservoir, decay_rate) == FMul(reservoir, decay_rate)

\* `amount`, what this tick spends from the reservoir
SpendAmount(decay, reservoir, decay_rate) ==
    IF decay.kind = "Quadratic"
    THEN Min(decay.amount, reservoir)
    ELSE FMul(reservoir, decay_rate)

\* DecayAfterSpend taking twice the decreasing rate off the amount
DecayAfterSpendTwice(decay) ==
    IF decay.kind = "Quadratic"
    THEN Quadratic(decay.amount - Min(2 * decay.decreasing_rate, decay.amount),
                   decay.decreasing_rate)
    ELSE decay

\* DecayAfterSpend adding the decreasing rate to the amount
DecayAfterSpendGrows(decay) ==
    IF decay.kind = "Quadratic"
    THEN Quadratic(decay.amount + decay.decreasing_rate, decay.decreasing_rate)
    ELSE decay

\* `*amount -= decreasing_rate.min(*amount)`
DecayAfterSpend(decay) ==
    IF decay.kind = "Quadratic"
    THEN Quadratic(decay.amount - Min(decay.decreasing_rate, decay.amount),
                   decay.decreasing_rate)
    ELSE decay

\* division truncating towards zero, as `(error / 1.0) as i32`
DivTrunc(e) == IF e < 0 THEN -((-e) \div One) ELSE e \div One

\* error.div_euclid(1.0)
DivEuclid(e) == e \div One

\* error.rem_euclid(1.0)
RemEuclid(e) == e % One

\* the `delta` block: the integer delta and the carried rounding error
Quantize(direction, amount, error) ==
    LET conv == TickIntoDelta(direction.value, amount)
        sum  == error + conv.error
    IN  [delta |-> conv.delta + DivEuclid(sum), error |-> RemEuclid(sum)]

\* a termination check that ends the session at its first tick
DepletedAtOnce(reservoir, amount, error) == TRUE

\* the termination check
Depleted(reservoir, amount, error) ==
    reservoir = 0 \/ (amount = 0 /\ error < One)

\* State::tick, Scrolling arm
TickScrolling(st) ==
    LET drain     == Drain(st.buffer)
        buffer    == st.buffer - drain
        capped    == CapReservoir(st.reservoir + drain, drain, st.feed_rate)
        feed_interval == FeedRateInterval(st.feed_rate)
        decay_rate    == FDiv(WHEEL_TICK_INTERVAL_SECS, feed_interval)
        decay     == SelectDecay(st.decay, buffer, capped, decay_rate, feed_interval)
        amount    == SpendAmount(decay, capped, decay_rate)
        reservoir == capped - amount
        q         == Quantize(st.direction, amount, st.error)
    IN  [state  |-> IF Depleted(reservoir, amount, q.error)
                    THEN Nop
                    ELSE Scrolling(st.direction, buffer, DecayAfterSpend(decay),
                                   reservoir, q.error, st.feed_rate),
         result |-> Some(with_value(st.direction, q.delta)),
         drain  |-> drain,
         amount |-> amount,
         error  |-> q.error,
         buffer |-> buffer,
         reservoir |-> reservoir]

\* a Nop arm that returns a zero delta in place of None
TickNopEmitsZero(st) ==
    [state |-> st, result |-> Some([axis |-> "Vertical", value |-> 0]),
     drain |-> 0, amount |-> 0, error |-> 0, buffer |-> 0, reservoir |-> 0]

\* State::tick, Nop arm
TickNop(st) ==
    [state |-> st, result |-> None, drain |-> 0, amount |-> 0, error |-> 0,
     buffer |-> 0, reservoir |-> 0]

\* State::tick returning None on the call that ends the session
StateTickNoneAtEnd(st) ==
    IF st.kind = "Scrolling"
    THEN LET r == TickScrolling(st)
         IN  IF r.state = Nop THEN [r EXCEPT !.result = None] ELSE r
    ELSE TickNop(st)

\* State::tick: the new state and the Option<Wheel<Delta>> it returns
StateTick(st) ==
    IF st.kind = "Scrolling" THEN TickScrolling(st) ELSE TickNop(st)

-----------------------------------------------------------------------------
(* SpecSM: the state machine driven directly *)

Magnitudes == (-MaxMag .. MaxMag) \ {0}

\* times between two feeds, in microseconds
Gaps == {0, 15000, 100000, 400000}

NoEmit == [result |-> None]

NoEvent == [kind |-> "None"]

NoFeed == [kind |-> "None"]

NoCalls == [ticks |-> << >>, stops |-> 0, sink |-> << >>]

NoPair == [kind |-> "None"]

NoQuad == [kind |-> "None"]

NoAccount == [fed |-> 0, spent |-> 0, cut |-> FALSE]

NoMeter == [kind |-> "None"]

NotHandled == [handler |-> "none", out |-> None, wasIdle |-> TRUE, late |-> FALSE]

\* MiddleButtonState::Idle, ::MiddleDown { time }, ::Scroll (times in
\* milliseconds)
MBIdle == [kind |-> "Idle"]

MBMiddleDown(time) == [kind |-> "MiddleDown", time |-> time]

MBScroll == [kind |-> "Scroll"]

\* TPMiddle::new: both state machines Idle; nothing handled yet
NoButton ==
    [now |-> 0, events |-> 0, mb |-> MBIdle, legacy |-> MBIdle,
     event |-> "None", before |-> MBIdle, up |-> FALSE,
     calls |-> << >>, legacyCalls |-> << >>,
     downAt |-> None, scrolled |-> FALSE, clicks |-> 0, legacyClicks |-> 0]

\* ConnectionState::Disconnected
Disconnected == [kind |-> "Disconnected"]

\* ConnectionState::USB { tpmiddle } and ::BT { wheel_blocker, tpmiddle },
\* built while handling message number `made`
Connected(transport, made) == [kind |-> transport, made |-> made]

\* the window handles of the devices
Handles == {1, 2}

\* TransportAgnosticTPMiddle::new: Disconnected, no device in the table
NoConn ==
    [state |-> Disconnected, devices |-> [h \in Handles |-> "Absent"], changes |-> 0,
     msg |-> "None", handle |-> 0, info |-> "None",
     before |-> Disconnected, devicesBefore |-> [h \in Handles |-> "Absent"],
     attempts |-> << >>, disconnected |-> FALSE]

\* a DWORD, as its two 16-bit halves
DWord(hi, lo) == << hi, lo >>

\* WheelBlocker not made yet
NoBlocker ==
    [started |-> FALSE, overflow_checks |-> FALSE, now |-> DWord(0, 0),
     pending |-> << >>, steps |-> 0,
     op |-> "None", injected |-> FALSE, data |-> DWord(0, 0), received |-> << >>,
     result |-> "None", consumed |-> 0, ages |-> << >>]

\* the hook ids a hook procedure is registered for
HookIds == {"WH_MOUSE_LL"}

\* no entry for a hook id in HOOKS
Vacant == [present |-> FALSE, hhook |-> 0]

\* HOOKS: empty; no LowLevelMouseHook alive
NoHooks ==
    [registry |-> [id \in HookIds |-> Vacant], alive |-> {}, calls |-> 0,
     op |-> "None", id |-> "None", result |-> "None",
     before |-> [id \in HookIds |-> Vacant], history |-> << >>]

InitCommon ==
    /\ state = Nop
    /\ feeds = 0
    /\ sinceFeed = 0
    /\ emitted = NoEmit
    /\ drift = 0
    /\ fed = NoFeed
    /\ session = None
    /\ quad = NoQuad
    /\ account = NoAccount
    /\ callerPc = "ready"
    /\ callerEv = NoEvent
    /\ calls = [tick |-> 0, stop |-> 0]
    /\ events = << >>
    /\ workerPc = "select"
    /\ workerCmd = "none"
    /\ cmds = << >>
    /\ signals = 0
    /\ clockPc = "wait"
    /\ last = NotHandled
    /\ stopped = FALSE
    /\ sentLog = << >>
    /\ fedLog = << >>
    /\ seenTick = FALSE
    /\ issued = "none"
    /\ consumed = "none"
    /\ classic = NoCalls
    /\ pair = NoPair
    /\ meter = NoMeter
    /\ button = NoButton
    /\ conn = NoConn
    /\ blocker = NoBlocker
    /\ hooks = NoHooks

InitSM == InitCommon

\* |magnitude| * sqrt(MIN_FEED_INTERVAL / interval)
Pressure(tick, interval) ==
    FMul(Abs(tick.value) * One, FSqrt(FDiv(MIN_FEED_INTERVAL_SECS, interval)))

\* the session's account after a State::feed that returned r: a new session
\* starts a new account; the pressure is |magnitude| * nudge, the nudge being
\* taken at MAX_FEED_INTERVAL_SECS for a new session and at
\* feed_rate.interval() otherwise
AccountAfterFeed(acc, tick, r) ==
    IF r.state = Panicked THEN acc
    ELSE IF r.started
         THEN [fed |-> Pressure(tick, MAX_FEED_INTERVAL_SECS), spent |-> 0, cut |-> FALSE]
         ELSE [acc EXCEPT !.fed = @ + Pressure(tick, FeedRateInterval(r.state.feed_rate))]

\* the session's account after a State::tick on st that returned r: the cap
\* has cut if the reservoir before the spend (r.reservoir + r.amount) is
\* below the reservoir plus the drain
AccountAfterTick(acc, st, r) ==
    IF r.result = None THEN acc
    ELSE [acc EXCEPT !.spent = @ + r.amount,
                     !.cut = @ \/ (r.reservoir + r.amount < st.reservoir + r.drain)]

\* one State::feed call
FeedCall(axis, mag, diff, overflow_checks) ==
    /\ state # Panicked
    /\ \E r \in {StateFeed(state, diff, Wheel(axis, mag), overflow_checks)} :
           /\ state' = r.state
           /\ drift' = IF r.started THEN 0 ELSE drift
           /\ fed' = [kind |-> "Feed", tick |-> Wheel(axis, mag), diff |-> diff,
                      prior |-> state, started |-> r.started]
           /\ session' = IF r.started THEN Some(Wheel(axis, mag)) ELSE session
           /\ account' = AccountAfterFeed(account, Wheel(axis, mag), r)
    /\ feeds' = feeds + 1
    /\ sinceFeed' = 0
    /\ emitted' = NoEmit
    /\ quad' = NoQuad
    /\ UNCHANGED <<ctlVars, auxVars>>

\* SpecSM's State::feed calls
SMFeed(axis, mag, diff, overflow_checks) ==
    /\ feeds < MaxFeeds
    /\ FeedCall(axis, mag, diff, overflow_checks)

\* One * delta - direction * amount * WHEEL_DELTA, formed from the whole and
\* the fractional part of `amount` so that no intermediate product exceeds
\* 32 bits
DriftStep(delta, dir, amount) ==
    One * (delta - dir * (amount \div One) * WHEEL_DELTA)
    - dir * (amount % One) * WHEEL_DELTA

\* ceil(2 * interval * WHEEL_TICK_FREQ): the clock ticks in twice the feed interval
QuadraticTicks(interval) ==
    (2 * WHEEL_TICK_FREQ * interval + One - 1) \div One

\* this State::tick switches the decay of st to Decay::Quadratic: it finds the
\* mode AutomaticExponential and leaves the buffer at 0; r is what it returns
SwitchesToQuadratic(st, r) ==
    /\ st.kind = "Scrolling"
    /\ st.decay = AutomaticExponential
    /\ r.buffer = 0

\* the account kept from the switch on: r.reservoir + r.amount is the
\* reservoir the switch saw, before the spend
QuadAfterTick(st, r, q) ==
    IF SwitchesToQuadratic(st, r)
    THEN [kind |-> "Quad", ticks |-> 1, atSwitch |-> r.reservoir + r.amount,
          spent |-> r.amount,
          limit |-> QuadraticTicks(FeedRateInterval(st.feed_rate))]
    ELSE IF q # NoQuad /\ r.result # None
         THEN [q EXCEPT !.ticks = @ + 1, !.spent = @ + r.amount]
         ELSE q

\* one State::tick call
SMTick ==
    /\ emitted.result # None \/ sinceFeed = 0
    /\ state # Panicked
    /\ \E r \in {StateTick(state)} :
           /\ state' = r.state
           /\ emitted' = IF r.result = None
                         THEN NoEmit
                         ELSE [result |-> r.result, direction |-> state.direction,
                               amount |-> r.amount, error |-> r.error,
                               buffer |-> r.buffer, reservoir |-> r.reservoir,
                               drain |-> r.drain,
                               moving_avg |-> FeedRateMovingAvg(state.feed_rate)]
           /\ drift' = IF r.result = None
                       THEN drift
                       ELSE drift + DriftStep(r.result[1].value, state.direction.value,
                                              r.amount)
           /\ quad' = QuadAfterTick(state, r, quad)
           /\ account' = AccountAfterTick(account, state, r)
    /\ sinceFeed' = sinceFeed + 1
    /\ fed' = NoFeed
    /\ UNCHANGED <<feeds, session, ctlVars, auxVars>>

NextSM ==
    \/ \E axis \in Axes, mag \in Magnitudes, diff \in Gaps, overflow_checks \in BOOLEAN :
          SMFeed(axis, mag, diff, overflow_checks)
    \/ SMTick

SpecSM == InitSM /\ [][NextSM]_vars

-----------------------------------------------------------------------------
(* SpecRate: the feed-rate estimate under runs of State::feed calls *)

\* magnitudes fed in SpecRate; the negative one starts a new session
RateMagnitudes == {-1, 1, 2}

\* times between two feeds, in microseconds: none, MIN_FEED_INTERVAL_SECS,
\* 0.1 s, beyond MAX_FEED_INTERVAL_SECS, and 1000 s
RateGaps == {0, MIN_FEED_INTERVAL_SECS, 100000, 400000, 1000 * One}

RateFeed(mag, diff, overflow_checks) ==
    /\ feeds < MaxRateFeeds
    /\ FeedCall("Vertical", mag, diff, overflow_checks)

NextRate ==
    \E mag \in RateMagnitudes, diff \in RateGaps, overflow_checks \in BOOLEAN :
        RateFeed(mag, diff, overflow_checks)

SpecRate == InitSM /\ [][NextRate]_vars

-----------------------------------------------------------------------------
(* SpecI8: the state machine fed the extreme magnitudes of i8 *)

\* i8::MIN, i8::MIN + 1 and i8::MAX
I8Magnitudes == {I8_MIN, I8_MIN + 1, -(I8_MIN + 1)}

\* time between two feeds, in microseconds (0.1 s: with it the feed rate
\* |magnitude| / interval stays within the fixed-point range)
I8Gaps == {100000}

I8Feed(mag, diff, overflow_checks) ==
    /\ feeds < MaxI8Feeds
    /\ FeedCall("Vertical", mag, diff, overflow_checks)

NextI8 ==
    \/ \E mag \in I8Magnitudes, diff \in I8Gaps, overflow_checks \in BOOLEAN :
          I8Feed(mag, diff, overflow_checks)
    \/ SMTick

SpecI8 == InitSM /\ [][NextI8]_vars

-----------------------------------------------------------------------------
(* SpecClassic: the ClassicController *)

\* ticks passed to ClassicController::tick
ClassicTicksIn ==
    {Wheel(a, m) : a \in Axes, m \in {I8_MIN, -1, 1, 2, -(I8_MIN + 1)}}

\* ClassicController::tick: HAL::send_wheel(tick.into_delta())
ClassicTick(tick) ==
    /\ Len(classic.ticks) < MaxClassicTicks
    /\ classic' = [classic EXCEPT !.ticks = Append(@, tick),
                                  !.sink = Append(@, into_delta(tick))]
    /\ UNCHANGED <<state, smVars, ctlVars, pair, meter, button, conn, blocker, hooks>>

\* ClassicController::stop: an empty body
ClassicStop ==
    /\ classic.stops < MaxClassicStops
    /\ classic' = [classic EXCEPT !.stops = @ + 1]
    /\ UNCHANGED <<state, smVars, ctlVars, pair, meter, button, conn, blocker, hooks>>

NextClassic ==
    \/ \E tick \in ClassicTicksIn : ClassicTick(tick)
    \/ ClassicStop

SpecClassic == InitCommon /\ [][NextClassic]_vars

-----------------------------------------------------------------------------
(* SpecPair: two fresh state machines fed the same ticks, the one at a       *)
(* shorter constant interval than the other, both ticked at WHEEL_TICK_FREQ. *)
(* Feed number i (from 0) arrives at time i * interval; clock tick number k  *)
(* (from 1) comes at time k / WHEEL_TICK_FREQ; a feed that has arrived is    *)
(* applied before the clock tick.                                            *)

\* constant intervals between feeds, in microseconds
PairIntervals == {30000, 100000, 200000, One}

\* a run before its first clock tick
NewRun(interval) ==
    [interval |-> interval, state |-> Nop, fedCount |-> 0, ticks |-> 0,
     peak |-> 0, peakAt |-> 0, done |-> FALSE]

\* feed number run.fedCount has arrived by clock tick number k
FeedDue(run, n, k) ==
    /\ run.fedCount < n
    /\ run.fedCount * run.interval * WHEEL_TICK_FREQ <= k * One

\* one clock period of a run: State::feed if a feed has arrived, then
\* State::tick; the reservoir after the tick is compared with the peak so far
RunStep(run, n, mag, overflow_checks) ==
    IF run.done THEN run
    ELSE
        LET k      == run.ticks + 1
            due    == FeedDue(run, n, k)
            fedSt  == IF due
                      THEN StateFeed(run.state, run.interval, Wheel("Vertical", mag),
                                     overflow_checks).state
                      ELSE run.state
            r      == StateTick(fedSt)
            level  == IF fedSt.kind = "Scrolling" THEN r.reservoir ELSE 0
            fedNow == run.fedCount + (IF due THEN 1 ELSE 0)
        IN  [interval |-> run.interval,
             state    |-> r.state,
             fedCount |-> fedNow,
             ticks    |-> k,
             peak     |-> Max(run.peak, level),
             peakAt   |-> IF level > run.peak THEN k ELSE run.peakAt,
             done     |-> fedNow = n /\ r.state = Nop]

\* two runs are set up: n feeds of magnitude mag each, at two intervals
PairStart(n, mag, shorter, longer) ==
    /\ pair = NoPair
    /\ shorter < longer
    /\ pair' = [kind |-> "Pair", n |-> n, mag |-> mag,
                fast |-> NewRun(shorter), slow |-> NewRun(longer)]
    /\ UNCHANGED <<state, smVars, ctlVars, classic, meter, button, conn, blocker, hooks>>

\* one clock period passes in both runs
PairStep(overflow_checks) ==
    /\ pair # NoPair
    /\ ~(pair.fast.done /\ pair.slow.done)
    /\ \E f \in {RunStep(pair.fast, pair.n, pair.mag, overflow_checks)},
          g \in {RunStep(pair.slow, pair.n, pair.mag, overflow_checks)} :
          pair' = [pair EXCEPT !.fast = f, !.slow = g]
    /\ UNCHANGED <<state, smVars, ctlVars, classic, meter, button, conn, blocker, hooks>>

NextPair ==
    \/ \E n \in 2 .. MaxPairFeeds, mag \in 1 .. MaxMag,
          shorter \in PairIntervals, longer \in PairIntervals :
          PairStart(n, mag, shorter, longer)
    \/ \E overflow_checks \in BOOLEAN : PairStep(overflow_checks)

SpecPair == InitCommon /\ [][NextPair]_vars

-----------------------------------------------------------------------------
(* SpecMeter: a FeedRate with its `prev` field, fed at chosen instants *)

\* FeedRate::new(now)
FeedRateNewAt(now) == [interval |-> None, value |-> None, prev |-> now]

\* FeedRate::feed without `self.prev = now`
FeedRateFeedKeepsPrev(fr, now, raw) ==
    LET diff == now - fr.prev
        est  == FeedRateFeed([interval |-> fr.interval, value |-> fr.value], diff, raw)
    IN  [interval |-> est.interval, value |-> est.value, prev |-> fr.prev]

\* FeedRate::feed(now, tick): diff = now - self.prev, the two estimates, then
\* self.prev = now
FeedRateFeedAt(fr, now, raw) ==
    LET diff == now - fr.prev
        est  == FeedRateFeed([interval |-> fr.interval, value |-> fr.value], diff, raw)
    IN  [interval |-> est.interval, value |-> est.value, prev |-> now]

\* times between two calls on the FeedRate, in microseconds
MeterGaps == {0, 15000, 100001, 400000}

\* magnitudes fed to the FeedRate
MeterMagnitudes == {-2, 1, 3}

\* FeedRate::new, some time after the start
MeterNew(elapsed) ==
    /\ meter = NoMeter
    /\ meter' = [kind |-> "Meter", fr |-> FeedRateNewAt(elapsed), now |-> elapsed,
                 feeds |-> 0, before |-> FeedRateNewAt(elapsed), since |-> 0, raw |-> 0]
    /\ UNCHANGED <<state, smVars, ctlVars, classic, pair, button, conn, blocker, hooks>>

\* FeedRate::feed, `elapsed` after the previous call on the FeedRate
MeterFeed(elapsed, raw) ==
    /\ meter # NoMeter
    /\ meter.feeds < MaxMeterFeeds
    /\ meter' = [kind |-> "Meter",
                 fr |-> FeedRateFeedAt(meter.fr, meter.now + elapsed, raw),
                 now |-> meter.now + elapsed,
                 feeds |-> meter.feeds + 1,
                 before |-> meter.fr, since |-> elapsed, raw |-> raw]
    /\ UNCHANGED <<state, smVars, ctlVars, classic, pair, button, conn, blocker, hooks>>

NextMeter ==
    \/ \E elapsed \in MeterGaps : MeterNew(elapsed)
    \/ \E elapsed \in MeterGaps, raw \in MeterMagnitudes : MeterFeed(elapsed, raw)

SpecMeter == InitCommon /\ [][NextMeter]_vars

-----------------------------------------------------------------------------
(* SpecButton: the middle-button state machine.  Two versions are in the    *)
(* repository: MiddleButtonState driven by frontends/win/src/tpmiddle.rs,    *)
(* and the State kept inline by src/tpmiddle.rs.  Both are fed the same      *)
(* events at the same instants.  The scroll controller is the list of the   *)
(* calls made on it.                                                         *)

MAX_MIDDLE_CLICK_DURATION == 500

\* MiddleButtonState::down
MiddleButtonDown(now) == MBMiddleDown(now)

\* the click window with a strict comparison
WithinClickWindowStrict(now, time) == now < time + MAX_MIDDLE_CLICK_DURATION

\* `now <= time + MAX_MIDDLE_CLICK_DURATION`
WithinClickWindow(now, time) == now <= time + MAX_MIDDLE_CLICK_DURATION

\* MiddleButtonState::up: `return true` leaves the state as it is; the other
\* paths set it to Idle and return false
MiddleButtonUp(st, now) ==
    IF st.kind = "MiddleDown" /\ WithinClickWindow(now, st.time)
    THEN [state |-> st, result |-> TRUE]
    ELSE [state |-> MBIdle, result |-> FALSE]

\* MiddleButtonState::scroll
MiddleButtonScroll == MBScroll

\* the ButtonUp arm with the middle click ahead of the stop
ProcButtonUpClickFirst(st, now) ==
    LET r == MiddleButtonUp(st, now)
    IN  [state |-> r.state, up |-> r.result,
         calls |-> (IF r.result THEN << "middle_click" >> ELSE << >>) \o << "stop" >>]

\* frontends/win/src/tpmiddle.rs, ButtonUp arm: control.stop(), then
\* control.middle_click() if up() returns true
ProcButtonUp(st, now) ==
    LET r == MiddleButtonUp(st, now)
    IN  [state |-> r.state, up |-> r.result,
         calls |-> << "stop" >> \o (IF r.result THEN << "middle_click" >> ELSE << >>)]

\* frontends/win/src/tpmiddle.rs, TPMiddle::proc: one event of the loop
ProcEvent(st, now, event) ==
    CASE event = "ButtonDown" ->
           [state |-> MiddleButtonDown(now), up |-> FALSE, calls |-> << >>]
      [] event = "ButtonUp" -> ProcButtonUp(st, now)
      [] OTHER ->
           [state |-> MiddleButtonScroll, up |-> FALSE, calls |-> << "tick" >>]

\* src/tpmiddle.rs, TPMiddle::proc: one event of the loop; ButtonUp calls
\* control.stop(), then send_click(3) within the click window, and sets the
\* state to Idle in every case
LegacyProcEvent(st, now, event) ==
    CASE event = "ButtonDown" -> [state |-> MBMiddleDown(now), calls |-> << >>]
      [] event = "ButtonUp" ->
           [state |-> MBIdle,
            calls |-> << "stop" >> \o
                      (IF st.kind = "MiddleDown" /\ WithinClickWindow(now, st.time)
                       THEN << "middle_click" >> ELSE << >>)]
      [] OTHER -> [state |-> MBScroll, calls |-> << "tick" >>]

\* Event::ButtonDown, ::ButtonUp, ::Vertical(dy), ::Horizontal(dx)
ButtonEvents == {"ButtonDown", "ButtonUp", "Vertical", "Horizontal"}

\* milliseconds between two events
ButtonGaps == {0, 300, 500, 501}

\* the number of "middle_click" in a list of calls
ClicksIn(made) == Cardinality({i \in 1 .. Len(made) : made[i] = "middle_click"})

\* one event of TPMiddle::proc's loop, `elapsed` after the previous one
ButtonEvent(event, elapsed) ==
    /\ button.events < MaxButtonEvents
    /\ \E now \in {button.now + elapsed} :
       \E r \in {ProcEvent(button.mb, now, event)},
          l \in {LegacyProcEvent(button.legacy, now, event)} :
          button' =
              [now |-> now, events |-> button.events + 1,
               mb |-> r.state, legacy |-> l.state,
               event |-> event, before |-> button.mb, up |-> r.up,
               calls |-> r.calls, legacyCalls |-> l.calls,
               downAt |-> IF event = "ButtonDown" THEN Some(now) ELSE button.downAt,
               scrolled |-> IF event = "ButtonDown" THEN FALSE
                            ELSE (button.scrolled \/ event \in {"Vertical", "Horizontal"}),
               clicks |-> IF event = "ButtonDown" THEN 0
                          ELSE button.clicks + ClicksIn(r.calls),
               legacyClicks |-> IF event = "ButtonDown" THEN 0
                                ELSE button.legacyClicks + ClicksIn(l.calls)]
    /\ UNCHANGED <<state, smVars, ctlVars, classic, pair, meter, conn, blocker, hooks>>

NextButton ==
    \E event \in ButtonEvents, elapsed \in ButtonGaps : ButtonEvent(event, elapsed)

SpecButton == InitCommon /\ [][NextButton]_vars

-----------------------------------------------------------------------------
(* SpecConn: TransportAgnosticTPMiddle, the connection over USB or Bluetooth *)
(* and the table of the devices that arrived.  What the operating system    *)
(* reports for a handle, and whether the keyboard can be initialized and    *)
(* the wheel blocker created, are inputs.                                    *)

\* DEVICE_INFOS_NOTIFY
DEVICE_INFOS_NOTIFY ==
    {"MIDDLE_BUTTON_HID_USB", "MIDDLE_BUTTON_HID_BT", "WHEEL_HID_BT"}

\* DeviceInfo::transport: by product id
DeviceTransport(info) ==
    CASE info \in {"MIDDLE_BUTTON_HID_USB", "NON_NATIVE_WHEEL_USB"} -> Some("USB")
      [] info \in {"MIDDLE_BUTTON_HID_BT", "WHEEL_HID_BT"} -> Some("BT")
      [] OTHER -> None

\* what get_hid_device_info returns for an arriving handle: a device of the
\* notify list, a HID device that is not in it, Ok(None) for a device that
\* is not a HID device, or an error
Reported == DEVICE_INFOS_NOTIFY \cup {"NON_NATIVE_WHEEL_USB", "NotHid", "Error"}

\* what a connect_over(transport) meets: hid::initialize_keyboard fails,
\* or WheelBlocker::new fails, or neither
ConnectOutcomes(transport) ==
    IF transport = "BT" THEN {"Ok", "KeyboardFails", "BlockerFails"}
    ELSE {"Ok", "KeyboardFails"}

\* connect_over that disconnects when it fails
ConnectOverDropsOnFailure(cs, transport, outcome, made) ==
    IF outcome = "Ok"
    THEN [state |-> Connected(transport, made), ok |-> TRUE]
    ELSE [state |-> Disconnected, ok |-> FALSE]

\* connect_over: `?` returns ahead of the assignment to self.state
connect_over(cs, transport, outcome, made) ==
    IF outcome = "KeyboardFails"
    THEN [state |-> cs, ok |-> FALSE]
    ELSE IF transport = "BT" /\ outcome = "BlockerFails"
         THEN [state |-> cs, ok |-> FALSE]
         ELSE [state |-> Connected(transport, made), ok |-> TRUE]

\* one connect_over call, as recorded
Attempt(cs, transport, outcome, r) ==
    [transport |-> transport, outcome |-> outcome, ok |-> r.ok,
     before |-> cs, after |-> r.state]

\* try_connect_over
try_connect_over(cs, transport, outcome, made) ==
    LET r == connect_over(cs, transport, outcome, made)
    IN  [state |-> r.state, attempts |-> << Attempt(cs, transport, outcome, r) >>]

\* try_connect_bt_then_usb with USB ahead of Bluetooth
try_connect_usb_then_bt(cs, first, second, made) ==
    LET u == connect_over(cs, "USB", second, made)
        b == connect_over(u.state, "BT", first, made)
    IN  IF u.ok
        THEN [state |-> u.state, attempts |-> << Attempt(cs, "USB", second, u) >>]
        ELSE [state |-> b.state,
              attempts |-> << Attempt(cs, "USB", second, u),
                              Attempt(u.state, "BT", first, b) >>]

\* try_connect_bt_then_usb
try_connect_bt_then_usb(cs, first, second, made) ==
    LET b == connect_over(cs, "BT", first, made)
        u == connect_over(b.state, "USB", second, made)
    IN  IF b.ok
        THEN [state |-> b.state, attempts |-> << Attempt(cs, "BT", first, b) >>]
        ELSE [state |-> u.state,
              attempts |-> << Attempt(cs, "BT", first, b),
                              Attempt(b.state, "USB", second, u) >>]

\* a message that leaves the connection and the device table alone
Untouched(cs, devices) ==
    [state |-> cs, devices |-> devices, attempts |-> << >>, disconnected |-> FALSE]

\* proc, WM_INPUT_DEVICE_CHANGE with GIDC_ARRIVAL
OnArrival(cs, devices, handle, info, first, second, made) ==
    IF info = "Error" THEN Untouched(cs, devices)
    ELSE IF info = "NotHid" THEN Untouched(cs, devices)
    ELSE IF info \notin DEVICE_INFOS_NOTIFY THEN Untouched(cs, devices)
    ELSE LET inserted == [devices EXCEPT ![handle] = info]
         IN  IF cs.kind = "Disconnected"
             THEN LET r == try_connect_bt_then_usb(cs, first, second, made)
                  IN  [state |-> r.state, devices |-> inserted,
                       attempts |-> r.attempts, disconnected |-> FALSE]
             ELSE IF cs.kind = "USB" /\ DeviceTransport(info) = Some("BT")
                  THEN LET r == try_connect_over(cs, "BT", first, made)
                       IN  [state |-> r.state, devices |-> inserted,
                            attempts |-> r.attempts, disconnected |-> FALSE]
                  ELSE Untouched(cs, inserted)

\* the transport that is not `transport`
OtherTransport(transport) == IF transport = "BT" THEN "USB" ELSE "BT"

\* the REMOVAL arm without `self.state = ConnectionState::Disconnected`
OnRemovalKeepsState(cs, devices, handle, first, made) ==
    IF devices[handle] = "Absent" THEN Untouched(cs, devices)
    ELSE LET removed == [devices EXCEPT ![handle] = "Absent"]
         IN  IF DeviceTransport(devices[handle]) = Some(cs.kind)
             THEN LET r == try_connect_over(cs, OtherTransport(cs.kind), first, made)
                  IN  [state |-> r.state, devices |-> removed,
                       attempts |-> r.attempts, disconnected |-> TRUE]
             ELSE Untouched(cs, removed)

\* proc, WM_INPUT_DEVICE_CHANGE with GIDC_REMOVAL
OnRemoval(cs, devices, handle, first, made) ==
    IF devices[handle] = "Absent" THEN Untouched(cs, devices)
    ELSE LET removed == [devices EXCEPT ![handle] = "Absent"]
         IN  IF DeviceTransport(devices[handle]) = Some(cs.kind)
             THEN LET r == try_connect_over(Disconnected, OtherTransport(cs.kind),
                                            first, made)
                  IN  [state |-> r.state, devices |-> removed,
                       attempts |-> r.attempts, disconnected |-> TRUE]
             ELSE Untouched(cs, removed)

\* the outcomes to choose for the first connect_over of an arrival
ArrivalFirst(info) ==
    IF info \in DEVICE_INFOS_NOTIFY /\ conn.state.kind # "BT"
            /\ (conn.state.kind = "USB" => DeviceTransport(info) = Some("BT"))
    THEN ConnectOutcomes("BT") ELSE {"Ok"}

\* the outcomes to choose for the second connect_over of an arrival
ArrivalSecond(info, first) ==
    IF info \in DEVICE_INFOS_NOTIFY /\ conn.state.kind = "Disconnected" /\ first # "Ok"
    THEN ConnectOutcomes("USB") ELSE {"Ok"}

\* the outcomes to choose for the connect_over of a removal
RemovalFirst(handle) ==
    IF conn.devices[handle] # "Absent"
            /\ DeviceTransport(conn.devices[handle]) = Some(conn.state.kind)
    THEN ConnectOutcomes(OtherTransport(conn.state.kind)) ELSE {"Ok"}

\* the record of a message handled
Handled(msg, handle, info, r) ==
    [state |-> r.state, devices |-> r.devices, changes |-> conn.changes + 1,
     msg |-> msg, handle |-> handle, info |-> info,
     before |-> conn.state, devicesBefore |-> conn.devices,
     attempts |-> r.attempts, disconnected |-> r.disconnected]

\* a device arrives
Arrival(handle, info) ==
    /\ conn.changes < MaxDeviceChanges
    /\ \E first \in ArrivalFirst(info) :
       \E second \in ArrivalSecond(info, first) :
          conn' = Handled("ARRIVAL", handle, info,
                          OnArrival(conn.state, conn.devices, handle, info,
                                    first, second, conn.changes + 1))
    /\ UNCHANGED <<state, smVars, ctlVars, classic, pair, meter, button, blocker, hooks>>

\* a device is removed
Removal(handle) ==
    /\ conn.changes < MaxDeviceChanges
    /\ \E first \in RemovalFirst(handle) :
          conn' = Handled("REMOVAL", handle, conn.devices[handle],
                          OnRemoval(conn.state, conn.devices, handle, first,
                                    conn.changes + 1))
    /\ UNCHANGED <<state, smVars, ctlVars, classic, pair, meter, button, blocker, hooks>>

NextConn ==
    \/ \E handle \in Handles, info \in Reported : Arrival(handle, info)
    \/ \E handle \in Handles : Removal(handle)

SpecConn == InitCommon /\ [][NextConn]_vars

-----------------------------------------------------------------------------
(* SpecBlock: the Bluetooth wheel blocker.  WheelBlocker::peek_message sends *)
(* a BlockMessage stamped with GetTickCount for every wheel input of a       *)
(* device; WheelBlockerHookProc::proc receives them when the low-level mouse *)
(* hook sees a wheel event.  Tick counts are DWORDs and wrap at 2^32; they   *)
(* are kept as two 16-bit halves.                                            *)

\* DWORD subtraction, modulo 2^32
DWordSub(a, b) ==
    LET lo == a[2] - b[2]
        borrow == IF lo < 0 THEN 1 ELSE 0
    IN  DWord((a[1] - b[1] - borrow) % 65536, lo % 65536)

\* DWORD addition, modulo 2^32
DWordAdd(a, b) ==
    LET lo == a[2] + b[2]
        carry == IF lo >= 65536 THEN 1 ELSE 0
    IN  DWord((a[1] + b[1] + carry) % 65536, lo % 65536)

\* a < b on DWORDs
DWordLess(a, b) == a[1] < b[1] \/ (a[1] = b[1] /\ a[2] < b[2])

\* `as i32` of a DWORD: the same 32 bits read as two's complement
AsI32(a) == (IF a[1] >= 32768 THEN a[1] - 65536 ELSE a[1]) * 65536 + a[2]

\* i32::MIN
I32_MIN == -2147483647 - 1

\* unary minus on an i32: on i32::MIN it panics with overflow checks and
\* wraps to i32::MIN without
I32Neg(x, overflow_checks) ==
    IF x = I32_MIN
    THEN [value |-> I32_MIN, panic |-> overflow_checks]
    ELSE [value |-> -x, panic |-> FALSE]

\* DWORD::max_value()
DWORD_MAX == DWord(65535, 65535)

\* DAY_MS = 1000 * 60 * 60 * 24 = 1318 * 65536 + 23552
DAY_MS == DWord(1318, 23552)

MESSAGE_TIMEOUT_MS == 10

\* message_arrived_before: the age of a message at the hook event, by cases
MessageArrivedBefore(data_time, message_time, overflow_checks) ==
    IF DWordLess(data_time, DAY_MS)
            /\ ~DWordLess(message_time, DWordSub(DWORD_MAX, DAY_MS))
    THEN [value |-> AsI32(DWordAdd(DWordSub(DWORD_MAX, message_time), data_time)),
          panic |-> FALSE]
    ELSE IF DWordLess(message_time, DAY_MS)
                 /\ ~DWordLess(data_time, DWordSub(DWORD_MAX, DAY_MS))
    THEN I32Neg(AsI32(DWordAdd(DWordSub(DWORD_MAX, data_time), message_time)),
                overflow_checks)
    ELSE IF DWordLess(message_time, data_time)
    THEN [value |-> AsI32(DWordSub(data_time, message_time)), panic |-> FALSE]
    ELSE I32Neg(AsI32(DWordSub(message_time, data_time)), overflow_checks)

\* BlockMessage { block, time }
BlockMessage(block, time) == [block |-> block, time |-> time]

RECURSIVE ReceiveLoop(_, _, _)
\* the `while let Ok(message) = recv_timeout(10 ms)` loop over the messages
\* that arrive: a message younger than MESSAGE_TIMEOUT_MS decides, an older
\* one is discarded, and the timeout passes the event
ReceiveLoop(messages, data_time, overflow_checks) ==
    IF messages = << >>
    THEN [result |-> "Pass", consumed |-> 0, ages |-> << >>]
    ELSE LET message == Head(messages)
             age == MessageArrivedBefore(data_time, message.time, overflow_checks)
             rest == ReceiveLoop(Tail(messages), data_time, overflow_checks)
         IN  IF age.panic
             THEN [result |-> "Panic", consumed |-> 1, ages |-> << age >>]
             ELSE IF age.value < MESSAGE_TIMEOUT_MS
             THEN [result |-> IF message.block THEN "Block" ELSE "Pass",
                   consumed |-> 1, ages |-> << age >>]
             ELSE [result |-> rest.result, consumed |-> rest.consumed + 1,
                   ages |-> << age >> \o rest.ages]

\* WheelBlockerHookProc::proc for a WM_MOUSEWHEEL event: an injected event
\* is unhandled at once
HookProc(messages, injected, data_time, overflow_checks) ==
    IF injected
    THEN [result |-> "Pass", consumed |-> 0, ages |-> << >>]
    ELSE ReceiveLoop(messages, data_time, overflow_checks)

\* GetTickCount when the blocker is made
StartTicks == {DWord(0, 0), DWord(65535, 65526)}

\* milliseconds that pass between two steps: 1, 9, 10, and 2^31
TickGaps == {DWord(0, 1), DWord(0, 9), DWord(0, 10), DWord(32768, 0)}

\* milliseconds from the hook event's time stamp to the call of the hook
EventLags == {DWord(0, 0), DWord(0, 4)}

\* what arrives on the channel while the hook waits: nothing, or a message
LateMessages == {<< >>, << TRUE >>}

\* WheelBlocker::new, in a build with or without overflow checks
BlockerStart(tick, overflow_checks) ==
    /\ ~blocker.started
    /\ blocker' = [blocker EXCEPT !.started = TRUE, !.now = tick,
                                  !.overflow_checks = overflow_checks]
    /\ UNCHANGED <<state, smVars, ctlVars, classic, pair, meter, button, conn, hooks>>

\* time passes
TickPasses(gap) ==
    /\ blocker.started
    /\ blocker.steps < MaxBlockerSteps
    /\ blocker' = [blocker EXCEPT !.now = DWordAdd(blocker.now, gap),
                                  !.steps = blocker.steps + 1,
                                  !.op = "Tick"]
    /\ UNCHANGED <<state, smVars, ctlVars, classic, pair, meter, button, conn, hooks>>

\* WheelBlocker::peek_message for a wheel input of a device:
\* HookThread::block sends BlockMessage { block, time: GetTickCount() }
PeekMessage(block) ==
    /\ blocker.started
    /\ blocker.steps < MaxBlockerSteps
    /\ blocker' = [blocker EXCEPT
                      !.pending = Append(blocker.pending, BlockMessage(block, blocker.now)),
                      !.steps = blocker.steps + 1,
                      !.op = "Peek"]
    /\ UNCHANGED <<state, smVars, ctlVars, classic, pair, meter, button, conn, hooks>>

\* the low-level mouse hook is called for a wheel event stamped `lag`
\* before now; `late` is what is sent while the hook waits
HookWheel(injected, lag, late) ==
    /\ blocker.started
    /\ blocker.steps < MaxBlockerSteps
    /\ blocker.result # "Panic"
    /\ \E data_time \in {DWordSub(blocker.now, lag)} :
       \E arriving \in {IF injected THEN blocker.pending
                        ELSE blocker.pending \o
                             [i \in 1 .. Len(late) |-> BlockMessage(late[i], blocker.now)]} :
       \E r \in {HookProc(arriving, injected, data_time, blocker.overflow_checks)} :
          blocker' = [blocker EXCEPT
                         !.pending = SubSeq(arriving, r.consumed + 1, Len(arriving)),
                         !.steps = blocker.steps + 1,
                         !.op = "Hook", !.injected = injected, !.data = data_time,
                         !.received = arriving, !.result = r.result,
                         !.consumed = r.consumed, !.ages = r.ages]
    /\ UNCHANGED <<state, smVars, ctlVars, classic, pair, meter, button, conn, hooks>>

NextBlock ==
    \/ \E tick \in StartTicks, overflow_checks \in BOOLEAN : BlockerStart(tick, overflow_checks)
    \/ \E gap \in TickGaps : TickPasses(gap)
    \/ \E block \in BOOLEAN : PeekMessage(block)
    \/ \E injected \in BOOLEAN, lag \in EventLags, late \in LateMessages :
          HookWheel(injected, lag, late)

SpecBlock == InitCommon /\ [][NextBlock]_vars

-----------------------------------------------------------------------------
(* SpecHook: LowLevelMouseHook and HOOKS, the process-wide table of the      *)
(* registered hook procedures.  Whether GetModuleHandleW and                 *)
(* SetWindowsHookExW succeed is an input.                                    *)

\* RegisteredHookProc { proc, hhook }; a null hhook is 0
RegisteredHookProc(hhook) == [present |-> TRUE, hhook |-> hhook]

\* register_hook_proc_context: bail if the id has an entry, else insert one
\* with a null hhook
register_hook_proc_context(registry, id_hook) ==
    IF registry[id_hook].present
    THEN [registry |-> registry, ok |-> FALSE]
    ELSE [registry |-> [registry EXCEPT ![id_hook] = RegisteredHookProc(0)], ok |-> TRUE]

\* HookProcRegisterGuard::get_handle: store the hhook in the entry
get_handle(registry, id_hook, hhook) ==
    [registry EXCEPT ![id_hook] = RegisteredHookProc(hhook)]

\* what LowLevelMouseHook::new meets after the registration:
\* GetModuleHandleW fails, SetWindowsHookExW fails, or neither
HookOutcomes == {"Ok", "ModuleFails", "HookFails"}

\* LowLevelMouseHook::new: register, then `?` on the module handle and on
\* HookHandle::new, then get_handle; the guard dropped by `?` only unlocks
\* HOOKS
LowLevelMouseHookNew(registry, id_hook, outcome, hhook) ==
    LET register == register_hook_proc_context(registry, id_hook)
    IN  IF ~register.ok
        THEN [registry |-> registry, result |-> "AlreadyRegistered", made |-> {}]
        ELSE IF outcome # "Ok"
        THEN [registry |-> register.registry, result |-> outcome, made |-> {}]
        ELSE [registry |-> get_handle(register.registry, id_hook, hhook),
              result |-> "Ok", made |-> {[id |-> id_hook, hhook |-> hhook]}]

\* Drop for HookProcHandle: remove the entry of the id
HookProcHandleDrop(registry, id_hook) == [registry EXCEPT ![id_hook] = Vacant]

\* the record of an operation on the hooks
HookDone(op, id_hook, result, registry, alive) ==
    [registry |-> registry, alive |-> alive, calls |-> hooks.calls + 1,
     op |-> op, id |-> id_hook, result |-> result, before |-> hooks.registry,
     history |-> Append(hooks.history, result)]

\* LowLevelMouseHook::new(hook_proc)
HookNew(id_hook, outcome) ==
    /\ hooks.calls < MaxHookCalls
    /\ \E r \in {LowLevelMouseHookNew(hooks.registry, id_hook, outcome, hooks.calls + 1)} :
          hooks' = HookDone("new", id_hook, r.result, r.registry, hooks.alive \cup r.made)
    /\ UNCHANGED <<state, smVars, ctlVars, classic, pair, meter, button, conn, blocker>>

\* Drop for LowLevelMouseHook: the HookHandle unhooks, the HookProcHandle
\* removes the entry
HookDrop(hook) ==
    /\ hooks.calls < MaxHookCalls
    /\ hook \in hooks.alive
    /\ hooks' = HookDone("drop", hook.id, "Dropped",
                         HookProcHandleDrop(hooks.registry, hook.id),
                         hooks.alive \ {hook})
    /\ UNCHANGED <<state, smVars, ctlVars, classic, pair, meter, button, conn, blocker>>

NextHook ==
    \/ \E id_hook \in HookIds, outcome \in HookOutcomes : HookNew(id_hook, outcome)
    \/ \E hook \in hooks.alive : HookDrop(hook)

SpecHook == InitCommon /\ [][NextHook]_vars

-----------------------------------------------------------------------------
(* Spec: SmoothController, its worker thread and its Ticker thread *)

\* Event::Tick(tick) and Event::Stop
EventTick(tick) == [kind |-> "Tick", tick |-> tick]

EventStop == [kind |-> "Stop"]

\* ticks the caller passes to tick()
CtlTicks == {Wheel(a, m) : a \in Axes, m \in {-1, 1}}

\* `now - prev` seen by the worker's Instant::now(), in microseconds
CtlGaps == {15000}

\* the controller's Sender<Event> is dropped (Drop for SmoothController)
SenderDropped == callerPc \in {"join", "done"}

\* the Ticker's Sender<TickerCommand> is dropped (Drop for Ticker)
CommandSenderDropped == workerPc \in {"ticker_drop", "done"}

\* crossbeam_channel Sender::send on a channel with room
ChanSend(ch, x) == Append(ch, x)

\* crossbeam_channel recv on a non-empty channel: the oldest item, removed
ChanRecv(ch) == [item |-> Head(ch), rest |-> Tail(ch)]

Init == InitCommon

\* SmoothController::tick and SmoothController::stop: up to the send
Call(ev) ==
    /\ callerPc = "ready"
    /\ IF ev.kind = "Tick" THEN calls.tick < MaxTickCalls ELSE calls.stop < MaxStopCalls
    /\ callerPc' = "send"
    /\ callerEv' = ev
    /\ calls' = IF ev.kind = "Tick"
                THEN [calls EXCEPT !.tick = @ + 1]
                ELSE [calls EXCEPT !.stop = @ + 1]
    /\ UNCHANGED <<state, smVars, auxVars, issued, consumed, events, workerPc, workerCmd, cmds, signals, clockPc,
                   last, stopped, sentLog, fedLog, seenTick>>

\* sender.send(event) completes: the channel has room, and the call returns
CallReturn ==
    /\ callerPc = "send"
    /\ Len(events) < 1
    /\ events' = ChanSend(events, callerEv)
    /\ sentLog' = IF callerEv.kind = "Tick" THEN Append(sentLog, callerEv.tick) ELSE sentLog
    /\ callerPc' = "ready"
    /\ callerEv' = NoEvent
    /\ UNCHANGED <<state, smVars, auxVars, issued, consumed, calls, workerPc, workerCmd, cmds, signals, clockPc,
                   last, stopped, fedLog, seenTick>>

\* Drop for SmoothController: the sender is dropped, then the worker is joined
DropController ==
    /\ callerPc = "ready"
    /\ callerPc' = "join"
    /\ UNCHANGED <<state, smVars, auxVars, issued, consumed, callerEv, calls, events, workerPc, workerCmd, cmds,
                   signals, clockPc, last, stopped, sentLog, fedLog, seenTick>>

\* join_handle.join() returns
JoinWorker ==
    /\ callerPc = "join"
    /\ workerPc = "done"
    /\ callerPc' = "done"
    /\ UNCHANGED <<state, smVars, auxVars, issued, consumed, callerEv, calls, events, workerPc, workerCmd, cmds,
                   signals, clockPc, last, stopped, sentLog, fedLog, seenTick>>

\* Ticker::resume and Ticker::stop: sender.send(command), which waits while
\* the channel is full
SendCommand(cmd) ==
    /\ workerPc' = "send"
    /\ workerCmd' = cmd

\* select arm recv(ticker.receiver): state.tick(), then send_wheel or ticker.stop()
WorkerSignal ==
    /\ workerPc = "select"
    /\ signals = 1
    /\ signals' = 0
    /\ \E r \in {StateTick(state)} :
           /\ state' = r.state
           /\ last' = [handler |-> "signal", out |-> r.result,
                       wasIdle |-> state.kind = "Nop", late |-> seenTick]
           /\ IF r.result # None
              THEN UNCHANGED <<workerPc, workerCmd>>
              ELSE SendCommand("Stop")
    /\ seenTick' = FALSE
    /\ UNCHANGED <<smVars, auxVars, issued, consumed, callerPc, callerEv, calls, events, cmds, clockPc, stopped,
                   sentLog, fedLog>>

\* select arm recv(receiver), Ok(Event::Tick(tick))
WorkerTick(diff, overflow_checks) ==
    /\ workerPc = "select"
    /\ events # << >>
    /\ ChanRecv(events).item.kind = "Tick"
    /\ events' = ChanRecv(events).rest
    /\ \E r \in {StateFeed(state, diff, ChanRecv(events).item.tick, overflow_checks)} :
           /\ state' = r.state
           /\ IF r.started
              THEN SendCommand("Start")
              ELSE UNCHANGED <<workerPc, workerCmd>>
    /\ last' = [handler |-> "tick", out |-> None, wasIdle |-> state.kind = "Nop",
                late |-> FALSE]
    /\ stopped' = FALSE
    /\ fedLog' = Append(fedLog, ChanRecv(events).item.tick)
    /\ seenTick' = FALSE
    /\ UNCHANGED <<smVars, auxVars, issued, consumed, callerPc, callerEv, calls, cmds, signals, clockPc, sentLog>>

\* a Stop arm that leaves `state` as it is
StopStateKeeps(st) == st

\* what the Event::Stop arm leaves in `state`
StopState(st) == Nop

\* select arm recv(receiver), Ok(Event::Stop)
WorkerStop ==
    /\ workerPc = "select"
    /\ events # << >>
    /\ ChanRecv(events).item.kind = "Stop"
    /\ events' = ChanRecv(events).rest
    /\ state' = StopState(state)
    /\ SendCommand("Stop")
    /\ last' = [handler |-> "stop", out |-> None, wasIdle |-> state.kind = "Nop",
                late |-> FALSE]
    /\ stopped' = TRUE
    /\ UNCHANGED <<smVars, auxVars, issued, consumed, callerPc, callerEv, calls, cmds, signals, clockPc, sentLog,
                   fedLog, seenTick>>

\* select arm recv(receiver), Err(_): the channel is empty and its sender is
\* dropped; the loop breaks and the closure's captures are dropped
WorkerClosed ==
    /\ workerPc = "select"
    /\ events = << >>
    /\ SenderDropped
    /\ workerPc' = "ticker_drop"
    /\ last' = [handler |-> "closed", out |-> None, wasIdle |-> state.kind = "Nop",
                late |-> FALSE]
    /\ UNCHANGED <<state, smVars, auxVars, issued, consumed, callerPc, callerEv, calls, events, workerCmd, cmds,
                   signals, clockPc, stopped, sentLog, fedLog, seenTick>>

\* the worker's sender.send(command) completes
WorkerSendCommand ==
    /\ workerPc = "send"
    /\ Len(cmds) < 1
    /\ cmds' = ChanSend(cmds, workerCmd)
    /\ issued' = workerCmd
    /\ workerPc' = "select"
    /\ workerCmd' = "none"
    /\ UNCHANGED <<state, smVars, auxVars, consumed, callerPc, callerEv, calls, events, signals, clockPc,
                   last, stopped, sentLog, fedLog, seenTick>>

\* Drop for Ticker: the command sender is dropped on entry; join() returns
\* when the Ticker thread is done; the signal receiver is dropped after it
JoinTicker ==
    /\ workerPc = "ticker_drop"
    /\ clockPc = "done"
    /\ workerPc' = "done"
    /\ UNCHANGED <<state, smVars, auxVars, issued, consumed, callerPc, callerEv, calls, events, workerCmd, cmds,
                   signals, clockPc, last, stopped, sentLog, fedLog, seenTick>>

\* where the idle loop goes on a command: Start breaks out of it
AfterRecv(cmd) == IF cmd = "Start" THEN "sleep" ELSE "wait"

\* a running loop that breaks on no command
AfterPollIgnoresStop(cmd) == "send"

\* where the running loop goes on a command: Stop breaks out of it
AfterPoll(cmd) == IF cmd = "Stop" THEN "wait" ELSE "send"

\* Ticker thread, inner loop 1: command_receiver.recv()
ClockRecv ==
    /\ clockPc = "wait"
    /\ \/ /\ cmds # << >>
          /\ cmds' = ChanRecv(cmds).rest
          /\ consumed' = ChanRecv(cmds).item
          /\ clockPc' = AfterRecv(ChanRecv(cmds).item)
       \/ /\ cmds = << >>
          /\ CommandSenderDropped
          /\ clockPc' = "done"
          /\ UNCHANGED <<cmds, consumed>>
    /\ UNCHANGED <<state, smVars, auxVars, issued, callerPc, callerEv, calls, events, workerPc, workerCmd,
                   signals, last, stopped, sentLog, fedLog, seenTick>>

\* Ticker thread, inner loop 2: loop_sleep() returns, then command_receiver.try_recv()
ClockPoll ==
    /\ clockPc = "sleep"
    /\ \/ /\ cmds # << >>
          /\ cmds' = ChanRecv(cmds).rest
          /\ consumed' = ChanRecv(cmds).item
          /\ clockPc' = AfterPoll(ChanRecv(cmds).item)
       \/ /\ cmds = << >>
          /\ clockPc' = IF CommandSenderDropped THEN "done" ELSE "send"
          /\ UNCHANGED <<cmds, consumed>>
    /\ UNCHANGED <<state, smVars, auxVars, issued, callerPc, callerEv, calls, events, workerPc, workerCmd,
                   signals, last, stopped, sentLog, fedLog, seenTick>>

\* Ticker thread: ticker_sender.send(()) completes
ClockSend ==
    /\ clockPc = "send"
    /\ signals < 1
    /\ signals' = signals + 1
    /\ clockPc' = "sleep"
    /\ seenTick' = (events # << >> /\ Head(events).kind = "Tick")
    /\ UNCHANGED <<state, smVars, auxVars, issued, consumed, callerPc, callerEv, calls, events, workerPc, workerCmd,
                   cmds, last, stopped, sentLog, fedLog>>

CallerStep ==
    \/ \E t \in CtlTicks : Call(EventTick(t))
    \/ Call(EventStop)
    \/ CallReturn
    \/ DropController
    \/ JoinWorker

WorkerStep ==
    \/ WorkerSignal
    \/ \E diff \in CtlGaps, overflow_checks \in BOOLEAN : WorkerTick(diff, overflow_checks)
    \/ WorkerStop
    \/ WorkerClosed
    \/ WorkerSendCommand
    \/ JoinTicker

ClockStep ==
    \/ ClockRecv
    \/ ClockPoll
    \/ ClockSend

Next == CallerStep \/ WorkerStep \/ ClockStep

Spec == Init /\ [][Next]_vars

-----------------------------------------------------------------------------
(* Properties of the controller (Spec) *)

\* the worker waits in Ticker::resume / Ticker::stop: the command channel is full
WorkerBlockedInSend == workerPc = "send" /\ Len(cmds) = 1

\* the Ticker thread waits in ticker_sender.send(()): the signal channel is full
ClockBlockedInSend == clockPc = "send" /\ signals = 1

\* the caller waits in sender.send(event): the event channel is full
CallerBlockedInSend == callerPc = "send" /\ Len(events) = 1

\* some action of WorkerStep is enabled
WorkerCanStep ==
    \/ workerPc = "select" /\ (signals = 1 \/ events # << >> \/ SenderDropped)
    \/ workerPc = "send" /\ Len(cmds) < 1
    \/ workerPc = "ticker_drop" /\ clockPc = "done"

\* some action of ClockStep is enabled
ClockCanStep ==
    \/ clockPc = "wait" /\ (cmds # << >> \/ CommandSenderDropped)
    \/ clockPc = "sleep"
    \/ clockPc = "send" /\ signals < 1

\* C1: every tick() or stop() call returns: whenever a call is waiting in its
\* send on the event channel, the channel has room, or the worker or the
\* clock thread can take a step (so the worker's loop can come round to
\* receive from the channel).
C1_CallReturns ==
    callerPc = "send" => (Len(events) < 1 \/ WorkerCanStep \/ ClockCanStep)

\* C2: the worker never waits in a send of Start/Stop to the clock, and the
\* clock never waits in a send of a tick signal to the worker.
C2_NoBlockingSend == ~WorkerBlockedInSend /\ ~ClockBlockedInSend

\* C3: dropping the controller terminates: once the sender is dropped and the
\* join is pending, some thread can always take a step until both joins return.
C3_DropTerminates ==
    callerPc = "join" => (workerPc = "done" \/ WorkerCanStep \/ ClockCanStep)

\* C5: after the worker has processed a Stop event and until a Tick event is
\* fed, the state is Idle and no worker iteration sends a delta to the sink;
\* a clock signal handled in that span yields None.
C5_NoDeltaAfterStop ==
    stopped => (state = Nop /\ last.out = None)

\* C5 witness: a clock signal was handled after a Stop and before any feed
C5_Witness == stopped /\ last.handler = "signal"

\* C6: a Stop event processed while the state machine is Idle leaves it Idle
\* and sends no delta, and a clock signal handled while Idle sends no delta
\* and leaves it Idle: repeated Stops leave what one Stop leaves.
C6_StopIdempotent ==
    /\ (last.handler = "stop" /\ last.wasIdle) => (state = Nop /\ last.out = None)
    /\ (last.handler = "signal" /\ last.wasIdle) => (state = Nop /\ last.out = None)

\* C6 witness: a second Stop in a row was processed, the machine being Idle
C6_Witness == last.handler = "stop" /\ last.wasIdle /\ calls.stop >= 2 /\ calls.tick = 0

\* the ticks of the Tick events waiting in the event channel
RECURSIVE TicksOf(_)
TicksOf(ch) ==
    IF ch = << >> THEN << >>
    ELSE (IF Head(ch).kind = "Tick" THEN << Head(ch).tick >> ELSE << >>) \o TicksOf(Tail(ch))

\* the order of feeds: the ticks passed to State::feed, followed by the ticks
\* still waiting in the event channel, are the ticks of the returned tick()
\* calls, in call order: none duplicated or reordered.
TicksFedInOrder == sentLog = fedLog \o TicksOf(events)

\* C10: every tick whose tick() call returned is passed to State::feed, once
\* and in call order: the feeds are a prefix of the returned calls' ticks, and
\* whenever neither the worker nor the clock thread can take a step, no
\* returned tick is left unfed.
C10_ReturnedTicksFed ==
    /\ TicksFedInOrder
    /\ (~WorkerCanStep /\ ~ClockCanStep) => sentLog = fedLog

\* C11: a Tick event already in the event channel when the clock sent a signal
\* is fed before the worker runs state.tick() for that signal: no signal is
\* handled while such a Tick event is still waiting.
C11_TickBeforeSignal == ~last.late

\* C20: the worker is never waiting to send a command into the full command
\* channel while the Ticker thread is waiting to send a signal into the full
\* signal channel.
C20_NoDeadlock == ~(WorkerBlockedInSend /\ ClockBlockedInSend)

-----------------------------------------------------------------------------
(* The commands to the clock (Spec) *)

\* the Ticker thread is in its running loop
ClockRunning == clockPc \in {"sleep", "send"}

\* the Ticker thread is in its idle loop, or has ended
ClockIdle == clockPc \in {"wait", "done"}

\* the worker waits in its select
WorkerInSelect == workerPc = "select"

\* C21 as stated: whenever the worker waits in its select, the last command
\* issued to the clock is Start exactly when the state is Scrolling, and with
\* the state Scrolling the clock is running or a Start is the pending item of
\* the command channel.
C21_StartIffScrolling ==
    WorkerInSelect =>
        /\ (issued = "Start") <=> (state.kind = "Scrolling")
        /\ state.kind = "Scrolling" => (ClockRunning \/ cmds = << "Start" >>)

\* C21 amended: whenever the worker waits in its select with the state
\* Scrolling, the last command issued to the clock is Start, and the clock is
\* running or that Start is the pending item of the command channel; and
\* whenever the last command issued is Stop, the state is Idle.
C21_SessionHasClock ==
    WorkerInSelect =>
        /\ state.kind = "Scrolling" =>
              (issued = "Start" /\ (ClockRunning \/ cmds = << "Start" >>))
        /\ issued = "Stop" => state = Nop

\* C21 witness: a session started after a Stop had been issued; its Start
\* waits in the command channel while the clock is still in its idle loop
C21_Witness ==
    /\ WorkerInSelect
    /\ state.kind = "Scrolling"
    /\ ~ClockRunning
    /\ cmds = << "Start" >>
    /\ consumed = "Stop"

\* no Tick event is waiting to be fed: none in the event channel, none in a
\* tick() call that has not returned
NoTickPending == TicksOf(events) = << >> /\ callerEv.kind # "Tick"

\* the worker's latest iteration handled a clock signal that found the state Idle
SignalFoundIdle == last.handler = "signal" /\ last.wasIdle

\* C22: a clock signal that finds the state Idle sends nothing to the sink and
\* commands the clock to stop; and once the state is Idle with no Tick event
\* pending, the clock comes to rest: while the controller is alive and the
\* clock is not in its idle loop, the worker or the clock thread can take a
\* step towards it.
C22_ClockComesToRest ==
    /\ SignalFoundIdle =>
          /\ last.out = None
          /\ (workerPc = "send" /\ workerCmd = "Stop") \/ issued = "Stop"
    /\ (state = Nop /\ NoTickPending /\ ~SenderDropped /\ ~ClockIdle) =>
          (WorkerCanStep \/ ClockCanStep)

\* this step takes the command cmd from the command channel
Consumes(cmd) == cmds # << >> /\ Head(cmds) = cmd /\ cmds' = Tail(cmds)

\* C23: the clock thread sends a tick signal only while the last command it
\* consumed is Start: none before its first Start, none between a Stop and
\* the next Start.  A Start consumed in the running loop leaves the loop
\* running, on its way to send the next signal; a Stop consumed in the idle
\* loop leaves the thread in the idle loop.
C23_ClockGated ==
    [][ /\ signals' > signals => consumed = "Start"
        /\ (clockPc = "sleep" /\ Consumes("Start")) => clockPc' = "send"
        /\ (clockPc = "wait" /\ Consumes("Stop")) => clockPc' = "wait"
        /\ (clockPc = "sleep" /\ Consumes("Stop")) => clockPc' = "wait"
      ]_vars

\* C23 witness: the clock has consumed a Stop in its running loop and is idle,
\* the signal it sent before that still waiting in the signal channel
C23_Witness ==
    /\ consumed = "Stop"
    /\ clockPc = "wait"
    /\ signals = 1

-----------------------------------------------------------------------------
(* Properties of the state machine (SpecSM) *)

\* State::tick calls a session can take after its last feed: the buffer
\* shrinks by a sixth per tick while above 1.0 and by a sixth of 1.0 below,
\* then the quadratic decay runs for at most 2 * MAX_FEED_INTERVAL_SECS
TailBound ==
    4 * MaxFeeds * MaxMag
    + 2 * ((MAX_FEED_INTERVAL_SECS * WHEEL_TICK_FREQ) \div One)
    + 10

\* C4: after the last feed a session is Idle within TailBound tick() calls:
\* no Scrolling state has seen more than TailBound ticks since its last feed.
C4_SessionTerminates ==
    state.kind = "Scrolling" => sinceFeed <= TailBound

\* C4 witness: a session fed twice ran down to Idle and the next tick returned None
C4_Witness ==
    /\ state = Nop
    /\ feeds = MaxFeeds
    /\ sinceFeed > 2
    /\ emitted = NoEmit

C9_AxisPreserved ==
    emitted.result # None => emitted.result[1].axis = emitted.direction.axis

-----------------------------------------------------------------------------
(* Properties of State::feed (SpecSM) *)

\* the last call was a State::feed that found no session of the tick's axis
\* and direction
FedNewSession ==
    /\ fed.kind = "Feed"
    /\ (fed.prior.kind = "Nop" \/ fed.prior.direction # into_direction(fed.tick))

\* the last call was a State::feed on a session of the tick's axis and direction
FedSameSession ==
    /\ fed.kind = "Feed"
    /\ fed.prior.kind = "Scrolling"
    /\ fed.prior.direction = into_direction(fed.tick)

-----------------------------------------------------------------------------
(* A single tick (SpecSM) *)

\* one feed of magnitude 1 on the Vertical axis, and nothing after it
SingleTick == feeds = 1 /\ session = Some(Wheel("Vertical", 1))

\* ticks a single tick's session can take: two to drain the buffer, then the
\* quadratic decay over 2 * MAX_FEED_INTERVAL_SECS
SingleTickTail == 2 + 2 * ((MAX_FEED_INTERVAL_SECS * WHEEL_TICK_FREQ) \div One)

\* C14 as stated: after a single feed of magnitude 1 on the Vertical axis the
\* clock ticks emit only deltas >= 0 and the state machine is Idle after at
\* most 20 ticks.
C14_SingleTickBurst ==
    SingleTick =>
        /\ emitted.result # None => emitted.result[1].value >= 0
        /\ state.kind = "Scrolling" => sinceFeed < 20

\* C14 amended: after a single feed of magnitude 1 on the Vertical axis the
\* clock ticks emit only deltas >= 0 and the state machine is Idle after at
\* most 74 ticks (2 + 2 * 0.3 s * 120 Hz), and not before the 21st.
C14_SingleTickTail ==
    SingleTick =>
        /\ emitted.result # None => emitted.result[1].value >= 0
        /\ state.kind = "Scrolling" => sinceFeed < SingleTickTail
        /\ (state = Nop /\ sinceFeed > 0) => sinceFeed > 20

\* C14 witness: the session of a single tick ended by depletion, its last tick
\* returning a delta
C14_Witness ==
    /\ SingleTick
    /\ state = Nop
    /\ emitted.result # None
    /\ sinceFeed > 20

-----------------------------------------------------------------------------
(* The feed-rate estimate (SpecRate) *)

\* C15: FeedRate::interval() is in [MIN_FEED_INTERVAL_SECS,
\* MAX_FEED_INTERVAL_SECS] after every sequence of feeds, whatever the gaps,
\* and is MAX_FEED_INTERVAL_SECS while the session has no sample.
C15_IntervalClamped ==
    state.kind = "Scrolling" =>
        /\ FeedRateInterval(state.feed_rate) >= MIN_FEED_INTERVAL_SECS
        /\ FeedRateInterval(state.feed_rate) <= MAX_FEED_INTERVAL_SECS
        /\ state.feed_rate.interval = None =>
              FeedRateInterval(state.feed_rate) = MAX_FEED_INTERVAL_SECS

\* C15 witness: an estimate blended from three samples lies beyond
\* MAX_FEED_INTERVAL_SECS, and interval() returns the clamp
C15_Witness ==
    /\ state.kind = "Scrolling"
    /\ feeds = MaxRateFeeds
    /\ fed.kind = "Feed"
    /\ fed.prior.kind = "Scrolling"
    /\ fed.prior.feed_rate.interval # None
    /\ fed.prior.feed_rate.interval[1] < MIN_FEED_INTERVAL_SECS
    /\ state.feed_rate.interval # None
    /\ state.feed_rate.interval[1] > MAX_FEED_INTERVAL_SECS
    /\ FeedRateInterval(state.feed_rate) = MAX_FEED_INTERVAL_SECS

-----------------------------------------------------------------------------
(* The extreme magnitudes (SpecI8) *)

\* C16: feed() and tick() never fail for a nonzero i8 magnitude, i8::MIN
\* included: no call panics, and the pressure a feed adds to the buffer is
\* strictly positive.
C16_NoFailure ==
    /\ state # Panicked
    /\ fed.kind = "Feed" =>
          /\ state.kind = "Scrolling"
          /\ state.buffer > (IF FedSameSession THEN fed.prior.buffer ELSE 0)

-----------------------------------------------------------------------------
(* The end of a session (SpecSM) *)

\* the last call was a State::tick that took the state from Scrolling to Nop
EndedByTick == emitted.result # None /\ state = Nop

-----------------------------------------------------------------------------
(* The classic controller (SpecClassic) *)

\* C18: the classic controller is a pass-through: at every moment the sink
\* has received exactly one delta per tick() call made, in call order, each
\* on its tick's axis and equal to magnitude * 120; stop() calls add nothing.
C18_PassThrough ==
    /\ Len(classic.sink) = Len(classic.ticks)
    /\ \A i \in 1 .. Len(classic.ticks) :
          /\ classic.sink[i].axis = classic.ticks[i].axis
          /\ classic.sink[i].value = classic.ticks[i].value * 120

\* C18 witness: a Horizontal tick of -128 and a Vertical tick went through,
\* with stop() calls made
C18_Witness ==
    /\ Len(classic.ticks) = 2
    /\ classic.stops = 2
    /\ classic.ticks[1] = Wheel("Horizontal", I8_MIN)
    /\ classic.ticks[2] = Wheel("Vertical", 1)
    /\ Len(classic.sink) = 2

-----------------------------------------------------------------------------
(* Fast against slow feed sequences (SpecPair) *)

\* C19: of two feed sequences with the same axis, direction and magnitudes,
\* the one with the shorter constant interval reaches its peak reservoir in
\* no more clock ticks than the other.
C19_FastPeaksFirst ==
    (pair # NoPair /\ pair.fast.done /\ pair.slow.done) =>
        pair.fast.peakAt <= pair.slow.peakAt

-----------------------------------------------------------------------------
(* What State::tick returns (SpecSM) *)

\* this step is a State::tick call
IsTickCall == sinceFeed' = sinceFeed + 1

\* C24: State::tick on a Scrolling state returns Some(delta), also on the call
\* that takes the state to Idle; it returns None exactly when the state was
\* Idle before the call, and then leaves it Idle.
C24_SomeIffScrolling ==
    [][ IsTickCall =>
          /\ state.kind = "Scrolling" => emitted'.result # None
          /\ (emitted'.result = None) <=> (state = Nop)
          /\ state = Nop => state' = Nop
      ]_vars

\* C24 witness: the tick that ended the session of a single feed returned a delta
C24_Witness ==
    /\ state = Nop
    /\ feeds = 1
    /\ sinceFeed > 0
    /\ emitted.result # None

-----------------------------------------------------------------------------
(* The reservoir cap (SpecSM, SpecI8) *)

\* the last call was a State::tick that drained something from the buffer
TickDrained == emitted.result # None /\ emitted.drain > 0

\* C25: after every State::tick call that drained an amount greater than
\* zero from the buffer, reservoir <= feed_rate.moving_avg().
C25_ReservoirCapped ==
    TickDrained => emitted.reservoir <= emitted.moving_avg

-----------------------------------------------------------------------------
(* Buffer and reservoir never negative (SpecSM) *)

\* C26: in every reachable Scrolling state buffer >= 0 and reservoir >= 0;
\* each tick drains between nothing and the whole buffer and spends between
\* nothing and the whole reservoir (what it leaves of either is >= 0).
C26_NonNegative ==
    /\ state.kind = "Scrolling" => (state.buffer >= 0 /\ state.reservoir >= 0)
    /\ emitted.result # None =>
          /\ emitted.drain >= 0
          /\ emitted.buffer >= 0
          /\ emitted.amount >= 0
          /\ emitted.reservoir >= 0

\* C26 witness: a tick drained the whole of what was left in the buffer, and
\* the session goes on with a reservoir above zero
C26_Witness ==
    /\ emitted.result # None
    /\ emitted.drain > 0
    /\ emitted.buffer = 0
    /\ state.kind = "Scrolling"
    /\ state.reservoir > 0
    /\ feeds = MaxFeeds

-----------------------------------------------------------------------------
(* The quadratic decay (SpecSM) *)

\* C27: from the clock tick that switches the decay to Quadratic, and with no
\* further feed, the session is Idle within ceil(2 * feed_rate.interval() *
\* 120) clock ticks, that tick included, and what those ticks spent adds up
\* to the reservoir at the switch.
C27_QuadraticExhausts ==
    quad # NoQuad =>
        /\ quad.ticks <= quad.limit
        /\ state.kind = "Scrolling" => (quad.ticks < quad.limit /\ quad.spent < quad.atSwitch)
        /\ state = Nop => quad.spent = quad.atSwitch

\* C27 witness: a session fed twice, 0.1 s apart, ran its quadratic decay down
\* to Idle over several ticks
C27_Witness ==
    /\ quad # NoQuad
    /\ state = Nop
    /\ feeds = MaxFeeds
    /\ quad.limit = 24
    /\ quad.ticks > 2
    /\ quad.atSwitch > 0

\* st is a session in Decay::Quadratic
InQuadratic(st) == st.kind = "Scrolling" /\ st.decay.kind = "Quadratic"

\* C28: the decay mode becomes Quadratic only in a tick() that finds the mode
\* AutomaticExponential and the buffer at 0 after its drain; a tick() on a
\* Quadratic session that goes on leaves it Quadratic with an amount no
\* larger than before; a feed() on a Quadratic session leaves the mode
\* AutomaticExponential; and a Quadratic session has buffer 0.
C28_QuadraticMode ==
    /\ [](InQuadratic(state) => state.buffer = 0)
    /\ [][ /\ (InQuadratic(state') /\ ~InQuadratic(state)) =>
                 /\ IsTickCall
                 /\ state.kind = "Scrolling"
                 /\ state.decay = AutomaticExponential
                 /\ emitted'.buffer = 0
           /\ (InQuadratic(state) /\ IsTickCall /\ state'.kind = "Scrolling") =>
                 /\ InQuadratic(state')
                 /\ state'.decay.amount <= state.decay.amount
                 /\ state'.decay.decreasing_rate = state.decay.decreasing_rate
                 /\ emitted'.amount <= state.decay.amount
           /\ (InQuadratic(state) /\ ~IsTickCall /\ state'.kind = "Scrolling") =>
                 state'.decay = AutomaticExponential
         ]_vars

\* C28 witness: a session fed twice is in its quadratic decay, some ticks
\* after the switch, its amount still above zero
C28_Witness ==
    /\ InQuadratic(state)
    /\ feeds = MaxFeeds
    /\ quad # NoQuad
    /\ quad.ticks > 2
    /\ state.decay.amount > 0
    /\ state.reservoir > 0

-----------------------------------------------------------------------------
(* The moving averages of FeedRate (SpecMeter) *)

\* est is the mean of prev and sample, each half rounded to the unit
IsMeanOf(est, prev, sample) ==
    0 <= 2 * est - (prev + sample) /\ 2 * est - (prev + sample) <= 2

-----------------------------------------------------------------------------
(* Conservation of pressure (SpecSM, SpecI8) *)

\* what the session has spent, plus what it still holds in buffer and reservoir
Accounted ==
    account.spent
    + (IF state.kind = "Scrolling" THEN state.buffer + state.reservoir ELSE 0)

\* C30: within a session, spent + buffer + reservoir <= the sum over its
\* feeds of |magnitude| * nudge, with equality as long as the reservoir cap
\* has not cut the reservoir; so the total spent never exceeds the pressure fed.
C30_PressureConserved ==
    state # Panicked =>
        /\ account.spent <= account.fed
        /\ Accounted <= account.fed
        /\ ~account.cut => Accounted = account.fed

-----------------------------------------------------------------------------
(* The nudge (SpecI8, SpecSM, SpecRate) *)

\* what the last State::feed added to the buffer
AddedByFeed == state.buffer - (IF FedSameSession THEN fed.prior.buffer ELSE 0)

\* the interval the nudge of the last State::feed was taken at
NudgeInterval ==
    IF FedSameSession THEN FeedRateInterval(state.feed_rate) ELSE MAX_FEED_INTERVAL_SECS

\* feed intervals between MIN_FEED_INTERVAL_SECS and MAX_FEED_INTERVAL_SECS
IntervalSamples ==
    {MIN_FEED_INTERVAL_SECS, 15001, 20000, 57500, 100000, 207500, 299999,
     MAX_FEED_INTERVAL_SECS}

\* C31: what a feed() adds to the buffer is at least |magnitude| *
\* sqrt(0.015 / 0.3) and at most |magnitude|; and the same magnitude fed at a
\* shorter feed_rate.interval() adds no less, at a longer one no more.
C31_NudgeBounds ==
    (fed.kind = "Feed" /\ state # Panicked) =>
        /\ AddedByFeed >= Pressure(fed.tick, MAX_FEED_INTERVAL_SECS)
        /\ AddedByFeed <= Abs(fed.tick.value) * One
        /\ \A i \in IntervalSamples :
              /\ i <= NudgeInterval => Pressure(fed.tick, i) >= AddedByFeed
              /\ i >= NudgeInterval => Pressure(fed.tick, i) <= AddedByFeed

-----------------------------------------------------------------------------
(* The middle button (SpecButton) *)

\* the last event handled was a ButtonUp
WasButtonUp == button.event = "ButtonUp"

\* C32: MiddleButtonState::up() returns true exactly when the state is
\* MiddleDown and at most 500 ms have passed since the last down(); a
\* scroll() since the last down() makes it return false.  src/tpmiddle.rs
\* sends its click on the same condition.
C32_ClickWindow ==
    WasButtonUp =>
        /\ button.up <=>
              /\ button.before.kind = "MiddleDown"
              /\ button.downAt # None
              /\ button.now - button.downAt[1] <= 500
        /\ button.scrolled => ~button.up
        /\ button.scrolled => ClicksIn(button.legacyCalls) = 0

\* C32 witness: a ButtonUp exactly 500 ms after its ButtonDown returned true
C32_Witness ==
    /\ WasButtonUp
    /\ button.up
    /\ button.downAt # None
    /\ button.now - button.downAt[1] = 500

\* C33: after a ButtonUp the state is Idle whatever up() returned, and at
\* most one middle click is synthesized per ButtonDown
C33_IdleAfterUp ==
    /\ WasButtonUp => button.mb = MBIdle
    /\ button.clicks <= 1

\* the same for the state machine of src/tpmiddle.rs
LegacyIdleAfterUp ==
    /\ WasButtonUp => button.legacy = MBIdle
    /\ button.legacyClicks <= 1

\* the calls a ButtonUp makes: one stop(), first, and nothing after it but
\* middle clicks
StopThenClicks(made) ==
    /\ Len(made) >= 1
    /\ made[1] = "stop"
    /\ \A i \in 2 .. Len(made) : made[i] = "middle_click"

\* C34: every ButtonUp makes exactly one stop() call on the controller,
\* ahead of any middle click of that event, whether or not a scroll
\* happened since ButtonDown; ButtonDown makes no call
C34_StopOnUp ==
    /\ WasButtonUp => (StopThenClicks(button.calls) /\ StopThenClicks(button.legacyCalls))
    /\ button.event = "ButtonDown" => (button.calls = << >> /\ button.legacyCalls = << >>)

\* C34 witness: a ButtonUp that clicked, and the controller was stopped first
C34_Witness ==
    /\ WasButtonUp
    /\ button.calls = << "stop", "middle_click" >>
    /\ button.legacyCalls = << "stop", "middle_click" >>

\* a ButtonUp after a scroll since the ButtonDown
C34_WitnessScrolled ==
    /\ WasButtonUp
    /\ button.scrolled
    /\ button.calls = << "stop" >>

-----------------------------------------------------------------------------
(* The connection (SpecConn) *)

\* the connect_over calls of the last message
AttemptsMade == {conn.attempts[i] : i \in 1 .. Len(conn.attempts)}

\* C35: a connect_over that fails, at the keyboard or at the wheel blocker,
\* leaves the connection state as it found it; when every attempt of an
\* arrival fails the connection is the one before the message
C35_FailedConnectKeeps ==
    /\ \A a \in AttemptsMade : ~a.ok => a.after = a.before
    /\ (conn.msg = "ARRIVAL" /\ \A a \in AttemptsMade : ~a.ok) => conn.state = conn.before
    /\ (conn.msg = "REMOVAL" /\ conn.disconnected /\ \A a \in AttemptsMade : ~a.ok)
          => conn.state = Disconnected

\* C35 witness: connected over USB, the switch to Bluetooth failed at the
\* wheel blocker, and the USB connection is still there
C35_Witness ==
    /\ conn.before.kind = "USB"
    /\ \E a \in AttemptsMade : a.transport = "BT" /\ a.outcome = "BlockerFails"
    /\ conn.state = conn.before

\* a failed attempt from Disconnected, at the keyboard
C35_WitnessDisconnected ==
    /\ conn.before = Disconnected
    /\ conn.attempts # << >>
    /\ \A a \in AttemptsMade : a.outcome = "KeyboardFails"
    /\ conn.state = Disconnected

\* the last message removed a tracked device of the connected transport
RemovedConnected ==
    /\ conn.msg = "REMOVAL"
    /\ conn.devicesBefore[conn.handle] # "Absent"
    /\ DeviceTransport(conn.devicesBefore[conn.handle]) = Some(conn.before.kind)

\* C36: the removal of a tracked device of the connected transport
\* disconnects and makes exactly one attempt over the other transport,
\* starting from Disconnected; any other removal leaves the connection alone
C36_RemovalReconnects ==
    conn.msg = "REMOVAL" =>
        IF RemovedConnected
        THEN /\ conn.disconnected
             /\ Len(conn.attempts) = 1
             /\ conn.attempts[1].transport = OtherTransport(conn.before.kind)
             /\ conn.attempts[1].before = Disconnected
             /\ conn.state = IF conn.attempts[1].ok
                             THEN Connected(OtherTransport(conn.before.kind), conn.changes)
                             ELSE Disconnected
        ELSE /\ conn.state = conn.before
             /\ conn.attempts = << >>

\* C36 witness: the connected transport's device was removed and the other
\* transport could not be connected
C36_Witness ==
    /\ RemovedConnected
    /\ conn.state = Disconnected
    /\ Len(conn.attempts) = 1

\* the removal of a tracked device of the transport that is not connected
C36_WitnessOther ==
    /\ conn.msg = "REMOVAL"
    /\ conn.devicesBefore[conn.handle] # "Absent"
    /\ conn.before.kind \in {"USB", "BT"}
    /\ ~RemovedConnected

\* C37: an arrival of a notify-listed device while Disconnected attempts
\* Bluetooth first and USB only after Bluetooth failed; while connected over
\* USB only a Bluetooth device makes an attempt, over Bluetooth; while
\* connected over Bluetooth the connection stays; a device outside the
\* notify list changes neither the table nor the connection
C37_ArrivalOrder ==
    conn.msg = "ARRIVAL" =>
        IF conn.info \notin DEVICE_INFOS_NOTIFY
        THEN /\ conn.devices = conn.devicesBefore
             /\ conn.state = conn.before
             /\ conn.attempts = << >>
        ELSE CASE conn.before.kind = "Disconnected" ->
                    /\ Len(conn.attempts) \in {1, 2}
                    /\ conn.attempts[1].transport = "BT"
                    /\ Len(conn.attempts) = 2 <=> ~conn.attempts[1].ok
                    /\ Len(conn.attempts) = 2 => conn.attempts[2].transport = "USB"
               [] conn.before.kind = "USB" ->
                    /\ conn.attempts # << >> <=> DeviceTransport(conn.info) = Some("BT")
                    /\ Len(conn.attempts) <= 1
                    /\ \A a \in AttemptsMade : a.transport = "BT"
               [] OTHER ->
                    /\ conn.state = conn.before
                    /\ conn.attempts = << >>

\* C37 witness: an arrival while Disconnected, Bluetooth failed and USB
\* connected
C37_Witness ==
    /\ conn.msg = "ARRIVAL"
    /\ conn.before = Disconnected
    /\ Len(conn.attempts) = 2
    /\ conn.state.kind = "USB"

\* an arrival of a USB device while connected over USB, and of any listed
\* device while connected over Bluetooth
C37_WitnessConnected ==
    /\ conn.msg = "ARRIVAL"
    /\ conn.info \in DEVICE_INFOS_NOTIFY
    /\ conn.before.kind = "BT"
    /\ conn.devices # conn.devicesBefore

-----------------------------------------------------------------------------
(* The wheel blocker (SpecBlock) *)

\* the age of a message at the hook event: (data.time - message.time)
\* modulo 2^32, read as a signed value
WrapAroundAge(data_time, message_time) == AsI32(DWordSub(data_time, message_time))

\* the places in the received messages whose age is at most `limit`
FreshWithin(limit) ==
    {i \in 1 .. Len(blocker.received) :
        WrapAroundAge(blocker.data, blocker.received[i].time) <= limit}

\* the least element of a non-empty set of numbers
Least(S) == CHOOSE i \in S : \A j \in S : i <= j

\* the last hook call blocked only on a first message of age at most
\* `limit` with block = true, and passed when there was no such message
DecidedByFirstWithin(limit) ==
    /\ blocker.result = "Block" =>
          /\ FreshWithin(limit) # {}
          /\ blocker.received[Least(FreshWithin(limit))].block
    /\ FreshWithin(limit) = {} => blocker.result = "Pass"

\* C38: the hook passes an injected wheel event and takes no message for
\* it; it blocks another wheel event only if the first message that is not
\* older than 10 ms has block = true, and passes it when there is no such
\* message
C38_BlockedByFirstFresh ==
    blocker.op = "Hook" =>
        IF blocker.injected
        THEN blocker.result = "Pass" /\ blocker.consumed = 0
        ELSE DecidedByFirstWithin(10)

\* the same with `younger than 10 ms` for `not older than 10 ms`
BlockedByFirstYounger ==
    (blocker.op = "Hook" /\ ~blocker.injected) => DecidedByFirstWithin(9)

\* the hook passes an injected wheel event and takes no message for it
InjectedPasses ==
    (blocker.op = "Hook" /\ blocker.injected) =>
        (blocker.result = "Pass" /\ blocker.consumed = 0)

\* C39: every age the hook computes is the wrap-around difference
\* (data.time - message.time) mod 2^32 read as a signed value
C39_AgeIsWrapAround ==
    blocker.op = "Hook" =>
        \A i \in 1 .. Len(blocker.ages) :
            /\ ~blocker.ages[i].panic
            /\ blocker.ages[i].value =
                   WrapAroundAge(blocker.data, blocker.received[i].time)

\* the same for the hook events and messages on one side of the wrap
AgeIsWrapAroundUnwrapped ==
    blocker.op = "Hook" =>
        \A i \in 1 .. Len(blocker.ages) :
            (DWordLess(blocker.received[i].time, blocker.data)
                    /\ AsI32(DWordSub(blocker.data, blocker.received[i].time)) >= 0) =>
                /\ ~blocker.ages[i].panic
                /\ blocker.ages[i].value =
                       WrapAroundAge(blocker.data, blocker.received[i].time)

-----------------------------------------------------------------------------
(* The hook registry (SpecHook) *)

\* the last LowLevelMouseHook::new failed after it had registered
NewFailedAfterRegister ==
    /\ hooks.op = "new"
    /\ hooks.result \in {"ModuleFails", "HookFails"}

\* C40: a LowLevelMouseHook::new that fails after the registration leaves
\* the registry as it was before the call, so that a new is rejected as
\* already registered only while a hook of that id is alive; and there is
\* at most one hook per id
C40_RegistryRestored ==
    /\ NewFailedAfterRegister => hooks.registry = hooks.before
    /\ (hooks.op = "new" /\ hooks.result = "AlreadyRegistered") =>
          \E hook \in hooks.alive : hook.id = hooks.id
    /\ \A id_hook \in HookIds :
          Cardinality({hook \in hooks.alive : hook.id = id_hook}) <= 1

\* every entry of the registry belongs to a hook that is alive, and every
\* hook alive has its entry
RegistryMatchesAlive ==
    \A id_hook \in HookIds :
        hooks.registry[id_hook].present <=>
            \E hook \in hooks.alive :
                hook.id = id_hook /\ hooks.registry[id_hook] = RegisteredHookProc(hook.hhook)

\* at most one hook per id is alive
OneHookPerId ==
    \A id_hook \in HookIds :
        Cardinality({hook \in hooks.alive : hook.id = id_hook}) <= 1

=============================================================================
